---- MODULE Spec2Model ----
(***************************************************************************)
(* One-way synchronisation Grist -> Demarches Simplifiees (DS).            *)
(* Model of src/shared/sync_engine.py (SyncEngine), with the parts of      *)
(* src/shared/grist_client.py and src/shared/ds_client.py it calls.        *)
(*                                                                         *)
(* Python values are modelled as strings: a Python str is the string       *)
(* itself, every other Python value is a token in angle brackets           *)
(* ("<None>", "<True>", "<42>"), and "<absent>" marks a key that is not in *)
(* the record's dict.                                                      *)
(***************************************************************************)
EXTENDS Integers, Sequences, FiniteSets, TLC

\* ------------------------------------------------------------------------
\* Python values
\* ------------------------------------------------------------------------
Absent == "<absent>"
PyNone == "<None>"
PyTrue == "<True>"
PyFalse == "<False>"
PyZero == "<0>"

\* The exception that escapes int(float('inf')): it is an ArithmeticError,
\* so "except (ValueError, TypeError)" does not catch it.
OverflowError == "<OverflowError>"
ValueError == "<ValueError>"

PyBools == {PyTrue, PyFalse}
PyNumbers == {PyZero, "<42>", "<7>"}
\* float values: 101.0 and float('inf')
PyFloats == {"<101.0>", "<inf>"}
IsStr(v) == v \notin ({Absent, PyNone} \cup PyBools \cup PyNumbers \cup PyFloats)

\* str(value)
PyStr(v) ==
    CASE v = PyNone -> "None"
      [] v = PyTrue -> "True"
      [] v = PyFalse -> "False"
      [] v = PyZero -> "0"
      [] v = "<42>" -> "42"
      [] v = "<7>" -> "7"
      [] v = "<101.0>" -> "101.0"
      [] v = "<inf>" -> "inf"
      [] OTHER -> v

\* str.lower() on the literals of the model
Lower(s) ==
    CASE s = "True" -> "true"
      [] s = "False" -> "false"
      [] s = "None" -> "none"
      [] s = "OUI" -> "oui"
      [] s = "Checkbox" -> "checkbox"
      [] OTHER -> s

\* bool(value): Python truthiness
Truthy(v) == v \notin {PyNone, "", PyFalse, PyZero}

\* float(s) on the literals of the model: kind of the result, its integer
\* part (int(float(s))) and its repr.
FloatOf(s) ==
    CASE s \in {"42", "42.0", " 42 "} -> [kind |-> "finite", trunc |-> 42, repr |-> "42.0"]
      [] s = "7" -> [kind |-> "finite", trunc |-> 7, repr |-> "7.0"]
      [] s = "0" -> [kind |-> "finite", trunc |-> 0, repr |-> "0.0"]
      [] s = "1" -> [kind |-> "finite", trunc |-> 1, repr |-> "1.0"]
      [] s = "3.14" -> [kind |-> "finite", trunc |-> 3, repr |-> "3.14"]
      [] s \in {"inf", "1e999"} -> [kind |-> "inf", trunc |-> 0, repr |-> "inf"]
      [] s = "nan" -> [kind |-> "nan", trunc |-> 0, repr |-> "nan"]
      [] OTHER -> [kind |-> "error", trunc |-> 0, repr |-> ""]

\* float(str(v)): "ok", ValueError
TryFloat(s) == IF FloatOf(s).kind = "error" THEN ValueError ELSE "ok"

\* int(float(str(v))): "ok", ValueError (not a number, or nan) or
\* OverflowError (infinity)
TryIntOfFloat(s) ==
    CASE FloatOf(s).kind = "finite" -> "ok"
      [] FloatOf(s).kind = "inf" -> OverflowError
      [] OTHER -> ValueError

\* ------------------------------------------------------------------------
\* DSClient: pure helpers
\* ------------------------------------------------------------------------
GristTypes == {"Text", "Numeric", "Int", "Date", "DateTime", "Bool"}

\* annotation_type.lower().replace('annotation_descriptor_', '')
NormalizeDsType(t) ==
    CASE t = "annotation_descriptor_text" -> "text"
      [] t = "annotation_descriptor_checkbox" -> "checkbox"
      [] OTHER -> Lower(t)

_normalize_annotation_type(typename) ==
    CASE typename = "TextChamp" -> "text"
      [] typename = "TextareaChamp" -> "textarea"
      [] typename = "IntegerNumberChamp" -> "integer_number"
      [] typename = "DecimalNumberChamp" -> "decimal_number"
      [] typename = "CheckboxChamp" -> "checkbox"
      [] typename = "DateChamp" -> "date"
      [] typename = "DatetimeChamp" -> "datetime"
      [] typename = "DropDownListChamp" -> "drop_down_list"
      [] typename = "NumberChamp" -> "decimal_number"
      [] OTHER -> "text"

NumericDsTypes == {"number", "integer_number", "decimal_number"}
TextDsTypes == {"text", "textarea"}
DateDsTypes == {"date", "datetime"}

\* compatibility_map[grist_type].get(ds_type, 'incompatible')
compatibility_map(g, d) ==
    CASE g = "Text" ->
           (CASE d \in TextDsTypes \cup {"drop_down_list"} -> "compatible"
              [] d \in {"checkbox"} \cup DateDsTypes \cup NumericDsTypes -> "needs_conversion"
              [] OTHER -> "incompatible")
      [] g \in {"Numeric", "Int"} ->
           (CASE d \in TextDsTypes \cup NumericDsTypes -> "compatible"
              [] d = "drop_down_list" -> "needs_conversion"
              [] OTHER -> "incompatible")
      [] g = "Date" ->
           (CASE d \in TextDsTypes \cup DateDsTypes -> "compatible"
              [] OTHER -> "incompatible")
      [] g = "DateTime" ->
           (CASE d \in TextDsTypes \cup {"datetime"} -> "compatible"
              [] d = "date" -> "needs_conversion"
              [] OTHER -> "incompatible")
      [] g = "Bool" ->
           (CASE d \in TextDsTypes \cup {"checkbox"} -> "compatible"
              [] d = "drop_down_list" -> "needs_conversion"
              [] OTHER -> "incompatible")
      [] OTHER -> "incompatible"

BoolVocabulary == {"true", "false", "1", "0", "oui", "non", "yes", "no"}

\* a verdict that is the entry of the table, whatever the value
check_compatibility_by_table(grist_type, ds_annotation_type, grist_value) ==
    compatibility_map(grist_type, NormalizeDsType(ds_annotation_type))

\* The verdict, or OverflowError when the exception escapes. grist_value is
\* PyNone when no sample value is given.
check_compatibility(grist_type, ds_annotation_type, grist_value) ==
    LET d == NormalizeDsType(ds_annotation_type)
        base == compatibility_map(grist_type, d)
        s == Lower(PyStr(grist_value))
        afterBool ==
            IF d = "checkbox" /\ grist_type = "Text"
            THEN IF s \in BoolVocabulary THEN "compatible" ELSE "incompatible"
            ELSE base
        parse == IF d = "integer_number" THEN TryIntOfFloat(PyStr(grist_value))
                 ELSE TryFloat(PyStr(grist_value))
    IN  IF grist_type \notin GristTypes THEN "incompatible"
        ELSE IF grist_value = PyNone THEN base
        ELSE IF d \in NumericDsTypes /\ grist_type = "Text"
             THEN CASE parse = "ok" -> "compatible"
                    [] parse = ValueError -> "incompatible"
                    [] OTHER -> OverflowError
             ELSE afterBool

\* a vocabulary that takes every recognised word for true
TruthyVocabularyWithFalsy == {"true", "false", "1", "0", "oui", "non", "yes", "no", "on"}

TruthyVocabulary == {"true", "1", "oui", "yes", "on"}

\* float(value) on the raw value (a bool is a number in Python)
FloatOfValue(v) ==
    CASE v = PyTrue -> FloatOf("1")
      [] v = PyFalse -> FloatOf("0")
      [] OTHER -> FloatOf(PyStr(v))

\* value.endswith('Z') and 'T' in value, on the literals of the model
EndsWithZ(s) == s \in {"2024-01-15T10:30:00Z", "2024-01-15Z", "2024-01-15T00:00:00.000Z"}
ContainsT(s) == s \in {"2024-01-15T10:30:00", "2024-01-15T10:30:00Z",
                       "2024-01-15T00:00:00.000Z", "True", "Text"}

\* a formatting that gives a datetime without time of day the 'Z' alone
format_value_for_ds_without_time(value, ds_annotation_type) ==
    LET ds_type == NormalizeDsType(ds_annotation_type)
        f == FloatOfValue(value)
    IN  IF value = PyNone \/ value = "" THEN PyNone
        ELSE CASE ds_type = "checkbox" ->
                    IF value \in PyBools THEN value
                    ELSE IF Lower(PyStr(value)) \in TruthyVocabulary THEN PyTrue ELSE PyFalse
               [] ds_type \in {"number", "decimal_number"} ->
                    IF f.kind = "error" THEN PyStr(value) ELSE "<" \o f.repr \o ">"
               [] ds_type = "integer_number" ->
                    (CASE f.kind = "finite" -> "<" \o ToString(f.trunc) \o ">"
                       [] f.kind = "inf" -> OverflowError
                       [] OTHER -> PyStr(value))
               [] ds_type \in DateDsTypes ->
                    IF IsStr(value) /\ ~EndsWithZ(value)
                    THEN IF ~ContainsT(value) /\ ds_type = "date" THEN value
                         ELSE value \o "Z"
                    ELSE value
               [] OTHER -> PyStr(value)

\* The formatted value, or OverflowError when the exception escapes.
format_value_for_ds(value, ds_annotation_type) ==
    LET ds_type == NormalizeDsType(ds_annotation_type)
        f == FloatOfValue(value)
    IN  IF value = PyNone \/ value = "" THEN PyNone
        ELSE CASE ds_type = "checkbox" ->
                    IF value \in PyBools THEN value
                    ELSE IF Lower(PyStr(value)) \in TruthyVocabulary THEN PyTrue ELSE PyFalse
               [] ds_type \in {"number", "decimal_number"} ->
                    IF f.kind = "error" THEN PyStr(value) ELSE "<" \o f.repr \o ">"
               [] ds_type = "integer_number" ->
                    (CASE f.kind = "finite" -> "<" \o ToString(f.trunc) \o ">"
                       [] f.kind = "inf" -> OverflowError
                       [] OTHER -> PyStr(value))
               [] ds_type \in DateDsTypes ->
                    IF IsStr(value) /\ ~EndsWithZ(value)
                    THEN IF ~ContainsT(value)
                         THEN IF ds_type = "datetime" THEN value \o "T00:00:00.000Z" ELSE value
                         ELSE value \o "Z"
                    ELSE value
               [] OTHER -> PyStr(value)

\* ------------------------------------------------------------------------
\* GristClient: change detection
\* ------------------------------------------------------------------------
DossierColumn == "dossier"
StatusColumn == "sync_status"
HashColumn == "sync_hash"
\* The mapped source columns, in key order (json.dumps(..., sort_keys=True))
SortedColumns == <<"c1", "c2">>

\* json.dumps of one value (default=str)
JsonValue(v) ==
    CASE v = PyNone -> "null"
      [] v = PyTrue -> "true"
      [] v = PyFalse -> "false"
      [] v \in PyNumbers -> PyStr(v)
      [] OTHER -> "\"" \o v \o "\""

RECURSIVE JsonItems(_, _)
JsonItems(fields, cols) ==
    IF cols = <<>> THEN ""
    ELSE LET c == Head(cols)
             rest == JsonItems(fields, Tail(cols))
             item == "\"" \o c \o "\": " \o JsonValue(fields[c])
         IN  IF rest = "" THEN item ELSE item \o ", " \o rest

\* Range of a sequence
Range(s) == {s[i] : i \in 1..Len(s)}

\* 'col in record_fields'
HasColumn(record_fields, col) ==
    col \in DOMAIN record_fields /\ record_fields[col] /= Absent

\* lines 131-134: the keys of sync_data in the order the loop inserts them (a
\* column named twice keeps its first place)
RECURSIVE sync_data(_, _)
sync_data(record_fields, columns_to_sync) ==
    IF columns_to_sync = <<>> THEN <<>>
    ELSE LET n == Len(columns_to_sync)
             col == columns_to_sync[n]
             before == sync_data(record_fields, SubSeq(columns_to_sync, 1, n - 1))
         IN  IF HasColumn(record_fields, col) /\ col \notin Range(before)
             THEN Append(before, col)
             ELSE before

\* a dump that writes the keys in the order they were inserted
insertion_order(keys) == keys

\* sort_keys=True: the keys in sorted order
sort_keys(keys) == SelectSeq(SortedColumns, LAMBDA c : c \in Range(keys))

\* json.dumps(sync_data, sort_keys=True, default=str), on the keys of sync_data
JsonDumps(record_fields, keys) ==
    "{" \o JsonItems(record_fields, sort_keys(keys)) \o "}"

\* hashlib.md5(data_str.encode()).hexdigest()[:12], tabulated on the values
\* the model's records can hold
md5_hexdigest_12(data_str) ==
    CASE data_str = "{\"c1\": \"\", \"c2\": \"\"}" -> "455f955e4c59"
      [] data_str = "{\"c1\": \"\", \"c2\": \"42\"}" -> "d3dece8ee2a0"
      [] data_str = "{\"c1\": \"\", \"c2\": \"7\"}" -> "1981558b24b4"
      [] data_str = "{\"c1\": \"\", \"c2\": \"abc\"}" -> "74bafde5bf24"
      [] data_str = "{\"c1\": \"\", \"c2\": \"false\"}" -> "8803c62446ff"
      [] data_str = "{\"c1\": \"\", \"c2\": \"inf\"}" -> "3d8140f45217"
      [] data_str = "{\"c1\": \"\", \"c2\": null}" -> "58e4dd958ac9"
      [] data_str = "{\"c1\": \"\"}" -> "e633ccde9e9d"
      [] data_str = "{\"c1\": \"42\", \"c2\": \"\"}" -> "2233ec218a20"
      [] data_str = "{\"c1\": \"42\", \"c2\": \"42\"}" -> "8b6d80789fea"
      [] data_str = "{\"c1\": \"42\", \"c2\": \"7\"}" -> "f4fdcb2dbb9d"
      [] data_str = "{\"c1\": \"42\", \"c2\": \"abc\"}" -> "b01821cd924b"
      [] data_str = "{\"c1\": \"42\", \"c2\": \"false\"}" -> "9f58efe0a5c8"
      [] data_str = "{\"c1\": \"42\", \"c2\": \"inf\"}" -> "2a3f061106af"
      [] data_str = "{\"c1\": \"42\", \"c2\": null}" -> "40f3c90281f4"
      [] data_str = "{\"c1\": \"42\"}" -> "82d80093eb35"
      [] data_str = "{\"c1\": \"7\", \"c2\": \"\"}" -> "d8969b040d07"
      [] data_str = "{\"c1\": \"7\", \"c2\": \"42\"}" -> "e1fa567d75f3"
      [] data_str = "{\"c1\": \"7\", \"c2\": \"7\"}" -> "afe80df3dabb"
      [] data_str = "{\"c1\": \"7\", \"c2\": \"abc\"}" -> "2602d47a5bb9"
      [] data_str = "{\"c1\": \"7\", \"c2\": \"false\"}" -> "9bba382941e9"
      [] data_str = "{\"c1\": \"7\", \"c2\": \"inf\"}" -> "6b2c7e1c9d84"
      [] data_str = "{\"c1\": \"7\", \"c2\": null}" -> "797d55fe8c9b"
      [] data_str = "{\"c1\": \"7\"}" -> "b31cd9e4a502"
      [] data_str = "{\"c1\": \"abc\", \"c2\": \"\"}" -> "37031ceecdcd"
      [] data_str = "{\"c1\": \"abc\", \"c2\": \"42\"}" -> "8c7453c7ce8d"
      [] data_str = "{\"c1\": \"abc\", \"c2\": \"7\"}" -> "46c4f816ca62"
      [] data_str = "{\"c1\": \"abc\", \"c2\": \"abc\"}" -> "d200d8f2ddfe"
      [] data_str = "{\"c1\": \"abc\", \"c2\": \"false\"}" -> "443d238ed70f"
      [] data_str = "{\"c1\": \"abc\", \"c2\": \"inf\"}" -> "935dac4bfe6b"
      [] data_str = "{\"c1\": \"abc\", \"c2\": null}" -> "1596149214d0"
      [] data_str = "{\"c1\": \"abc\"}" -> "0ed879c6f264"
      [] data_str = "{\"c1\": \"false\", \"c2\": \"\"}" -> "10eff056a6ca"
      [] data_str = "{\"c1\": \"false\", \"c2\": \"42\"}" -> "403512eb1d0f"
      [] data_str = "{\"c1\": \"false\", \"c2\": \"7\"}" -> "5e98b09ee675"
      [] data_str = "{\"c1\": \"false\", \"c2\": \"abc\"}" -> "cab91b1cb45f"
      [] data_str = "{\"c1\": \"false\", \"c2\": \"false\"}" -> "f18c533c4b79"
      [] data_str = "{\"c1\": \"false\", \"c2\": \"inf\"}" -> "09226acef382"
      [] data_str = "{\"c1\": \"false\", \"c2\": null}" -> "e9fd1110b2bb"
      [] data_str = "{\"c1\": \"false\"}" -> "19dd394e490a"
      [] data_str = "{\"c1\": \"inf\", \"c2\": \"\"}" -> "18d53eb5ec0b"
      [] data_str = "{\"c1\": \"inf\", \"c2\": \"42\"}" -> "6b1eab8bb251"
      [] data_str = "{\"c1\": \"inf\", \"c2\": \"7\"}" -> "2616503ec617"
      [] data_str = "{\"c1\": \"inf\", \"c2\": \"abc\"}" -> "d3c9860e7eac"
      [] data_str = "{\"c1\": \"inf\", \"c2\": \"false\"}" -> "c0a3ff14d4ac"
      [] data_str = "{\"c1\": \"inf\", \"c2\": \"inf\"}" -> "bd4df762b1d7"
      [] data_str = "{\"c1\": \"inf\", \"c2\": null}" -> "c39a6658a39e"
      [] data_str = "{\"c1\": \"inf\"}" -> "db49a07983ba"
      [] data_str = "{\"c1\": null, \"c2\": \"\"}" -> "28ed602377e7"
      [] data_str = "{\"c1\": null, \"c2\": \"42\"}" -> "45645114cafc"
      [] data_str = "{\"c1\": null, \"c2\": \"7\"}" -> "56ff5cc7553c"
      [] data_str = "{\"c1\": null, \"c2\": \"abc\"}" -> "a66d48b33c56"
      [] data_str = "{\"c1\": null, \"c2\": \"false\"}" -> "7fa5a64b65ef"
      [] data_str = "{\"c1\": null, \"c2\": \"inf\"}" -> "f5c9af231b84"
      [] data_str = "{\"c1\": null, \"c2\": null}" -> "7bb49d22314e"
      [] data_str = "{\"c1\": null}" -> "77a65ec60c72"
      [] data_str = "{\"c2\": \"\"}" -> "44793da6aa35"
      [] data_str = "{\"c2\": \"42\"}" -> "36df1c8da04d"
      [] data_str = "{\"c2\": \"7\"}" -> "fd1967475468"
      [] data_str = "{\"c2\": \"abc\"}" -> "ebbefc30d277"
      [] data_str = "{\"c2\": \"false\"}" -> "4d8e60d077ee"
      [] data_str = "{\"c2\": \"inf\"}" -> "0fd548794990"
      [] data_str = "{\"c2\": null}" -> "5de15cb477c6"
      [] data_str = "{}" -> "99914b932bd3"
      [] data_str = "{\"c2\": null, \"c1\": null}" -> "8f32406667cd"
      [] data_str = "{\"c2\": null, \"c1\": \"\"}" -> "8b8470362baa"
      [] data_str = "{\"c2\": null, \"c1\": \"42\"}" -> "9dc357364810"
      [] data_str = "{\"c2\": null, \"c1\": \"7\"}" -> "c589d3045469"
      [] data_str = "{\"c2\": null, \"c1\": \"abc\"}" -> "bd21c5b779cd"
      [] data_str = "{\"c2\": null, \"c1\": \"inf\"}" -> "7f7431c95eb9"
      [] data_str = "{\"c2\": null, \"c1\": \"false\"}" -> "f6066c62095b"
      [] data_str = "{\"c2\": \"\", \"c1\": null}" -> "4937fc4843f9"
      [] data_str = "{\"c2\": \"\", \"c1\": \"\"}" -> "43ed5096e81e"
      [] data_str = "{\"c2\": \"\", \"c1\": \"42\"}" -> "adfe0763fcdc"
      [] data_str = "{\"c2\": \"\", \"c1\": \"7\"}" -> "c2913b93c1a3"
      [] data_str = "{\"c2\": \"\", \"c1\": \"abc\"}" -> "0318d543f006"
      [] data_str = "{\"c2\": \"\", \"c1\": \"inf\"}" -> "1e73159555f1"
      [] data_str = "{\"c2\": \"\", \"c1\": \"false\"}" -> "16eb98113c9d"
      [] data_str = "{\"c2\": \"42\", \"c1\": null}" -> "959655c91bbe"
      [] data_str = "{\"c2\": \"42\", \"c1\": \"\"}" -> "ccadfc5824ae"
      [] data_str = "{\"c2\": \"42\", \"c1\": \"42\"}" -> "b94f96a75fb8"
      [] data_str = "{\"c2\": \"42\", \"c1\": \"7\"}" -> "b412d09b1ccb"
      [] data_str = "{\"c2\": \"42\", \"c1\": \"abc\"}" -> "a3306b1c2af5"
      [] data_str = "{\"c2\": \"42\", \"c1\": \"inf\"}" -> "0f4554b2cf1b"
      [] data_str = "{\"c2\": \"42\", \"c1\": \"false\"}" -> "a978f2786fa9"
      [] data_str = "{\"c2\": \"7\", \"c1\": null}" -> "83097bdd6ba3"
      [] data_str = "{\"c2\": \"7\", \"c1\": \"\"}" -> "8fe337673b23"
      [] data_str = "{\"c2\": \"7\", \"c1\": \"42\"}" -> "c42d6596c061"
      [] data_str = "{\"c2\": \"7\", \"c1\": \"7\"}" -> "a3576d49c355"
      [] data_str = "{\"c2\": \"7\", \"c1\": \"abc\"}" -> "a070df2c50d0"
      [] data_str = "{\"c2\": \"7\", \"c1\": \"inf\"}" -> "17a4655c0c99"
      [] data_str = "{\"c2\": \"7\", \"c1\": \"false\"}" -> "400ccfe10ad3"
      [] data_str = "{\"c2\": \"abc\", \"c1\": null}" -> "cb2d5288d259"
      [] data_str = "{\"c2\": \"abc\", \"c1\": \"\"}" -> "bdc800d3201d"
      [] data_str = "{\"c2\": \"abc\", \"c1\": \"42\"}" -> "0d891db40506"
      [] data_str = "{\"c2\": \"abc\", \"c1\": \"7\"}" -> "001776a362ef"
      [] data_str = "{\"c2\": \"abc\", \"c1\": \"abc\"}" -> "cd2fc466e98a"
      [] data_str = "{\"c2\": \"abc\", \"c1\": \"inf\"}" -> "0df91ba48a11"
      [] data_str = "{\"c2\": \"abc\", \"c1\": \"false\"}" -> "04c71ef9280e"
      [] data_str = "{\"c2\": \"inf\", \"c1\": null}" -> "df1ab69d4900"
      [] data_str = "{\"c2\": \"inf\", \"c1\": \"\"}" -> "7ec7f1fabb1d"
      [] data_str = "{\"c2\": \"inf\", \"c1\": \"42\"}" -> "29370ed3c218"
      [] data_str = "{\"c2\": \"inf\", \"c1\": \"7\"}" -> "c8ac7225d13a"
      [] data_str = "{\"c2\": \"inf\", \"c1\": \"abc\"}" -> "9ffc629eb4de"
      [] data_str = "{\"c2\": \"inf\", \"c1\": \"inf\"}" -> "20849f48e541"
      [] data_str = "{\"c2\": \"inf\", \"c1\": \"false\"}" -> "3acca84fb6ed"
      [] data_str = "{\"c2\": \"false\", \"c1\": null}" -> "80cec39e362e"
      [] data_str = "{\"c2\": \"false\", \"c1\": \"\"}" -> "e9f5458a26a1"
      [] data_str = "{\"c2\": \"false\", \"c1\": \"42\"}" -> "8a9796c2f7a3"
      [] data_str = "{\"c2\": \"false\", \"c1\": \"7\"}" -> "bad60c7274c3"
      [] data_str = "{\"c2\": \"false\", \"c1\": \"abc\"}" -> "2c6c0d25effc"
      [] data_str = "{\"c2\": \"false\", \"c1\": \"inf\"}" -> "cd411995b9bb"
      [] data_str = "{\"c2\": \"false\", \"c1\": \"false\"}" -> "ccf7eafed4ac"

calculate_data_hash(record_fields, columns_to_sync) ==
    md5_hexdigest_12(JsonDumps(record_fields, sync_data(record_fields, columns_to_sync)))

\* a selection that never applies the fingerprint gate
should_sync_by_status_only(fields, columns_to_sync, detect_changes) ==
    IF fields[DossierColumn] = Absent \/ ~Truthy(fields[DossierColumn]) THEN FALSE
    ELSE IF fields[StatusColumn] = Absent THEN TRUE
    ELSE fields[StatusColumn] \in {PyNone, "", "error", "pending"}

\* get_records_to_sync, lines 167-195: the decision for one record
should_sync(fields, columns_to_sync, detect_changes) ==
    IF fields[DossierColumn] = Absent \/ ~Truthy(fields[DossierColumn]) THEN FALSE
    ELSE IF fields[StatusColumn] = Absent THEN TRUE
    ELSE IF fields[StatusColumn] \in {PyNone, "", "error", "pending"} THEN TRUE
    ELSE IF detect_changes /\ columns_to_sync /= <<>> /\ fields[StatusColumn] = "success"
         THEN calculate_data_hash(fields, columns_to_sync)
                /= (IF fields[HashColumn] = Absent THEN "" ELSE fields[HashColumn])
         ELSE FALSE

\* The record as get_records_to_sync returns it: with '_current_hash' when
\* there are columns to sync
WithCurrentHash(record, columns_to_sync) ==
    [id |-> record.id, fields |-> record.fields,
     current_hash |-> IF columns_to_sync /= <<>>
                      THEN calculate_data_hash(record.fields, columns_to_sync)
                      ELSE PyNone]

\* A record of get_table_data: it has no '_current_hash'
Plain(record) == [id |-> record.id, fields |-> record.fields, current_hash |-> PyNone]

RECURSIVE MapSeq(_, _)
MapSeq(Op(_), s) == IF s = <<>> THEN <<>> ELSE <<Op(Head(s))>> \o MapSeq(Op, Tail(s))

get_records_to_sync(records, columns_to_sync, detect_changes) ==
    MapSeq(LAMBDA r : WithCurrentHash(r, columns_to_sync),
           SelectSeq(records, LAMBDA r : should_sync(r.fields, columns_to_sync, detect_changes)))

\* a write-back that leaves the fingerprint out
update_sync_status_fields_without_hash(success, data_hash) ==
    [sync_status |-> IF success THEN "success" ELSE "error", sync_hash |-> Absent]

\* update_sync_status, lines 145-153: the fields written to the record
\* (sync_date and sync_message are not modelled)
update_sync_status_fields(success, data_hash) ==
    [sync_status |-> IF success THEN "success" ELSE "error",
     sync_hash |-> IF data_hash \notin {PyNone, ""} THEN data_hash ELSE Absent]

\* a truncation that keeps the whole list
TakeAll(s, n) == s

\* grist_records[:n]
Take(s, n) == IF Len(s) > n THEN SubSeq(s, 1, n) ELSE s

\* The column metadata of a table whose mapped columns are Text columns, and
\* of one whose column c1 is a Bool column
GristColumnTypes == [c1 |-> "Text", c2 |-> "Text"]
BoolColumnTypes == [c1 |-> "Bool", c2 |-> "Text"]

\* get_column_type: the type of the column, 'Text' when the column metadata
\* cannot be fetched or does not hold the column
get_column_type(column_types, column_id, reachable) ==
    IF reachable /\ column_id \in DOMAIN column_types
    THEN column_types[column_id]
    ELSE "Text"

\* ------------------------------------------------------------------------
\* The destination: the cases of the demarche and their annotations
\* ------------------------------------------------------------------------
DsCases ==
    << [number |-> 101, id |-> "D101",
        annotations |-> << [id |-> "a1", label |-> "L1", typename |-> "IntegerNumberChamp"],
                           [id |-> "a2", label |-> "L2", typename |-> "IntegerNumberChamp"] >>],
       [number |-> 102, id |-> "D102",
        annotations |-> << [id |-> "a3", label |-> "L2", typename |-> "TextChamp"] >>],
       [number |-> 103, id |-> "D103",
        annotations |-> << [id |-> "a4", label |-> "L1", typename |-> "CheckboxChamp"],
                           [id |-> "a5", label |-> "L2", typename |-> "TextChamp"] >>],
       \* a case with two annotations of the same label
       [number |-> 104, id |-> "D104",
        annotations |-> << [id |-> "a6", label |-> "L1", typename |-> "TextChamp"],
                           [id |-> "a7", label |-> "L1", typename |-> "IntegerNumberChamp"],
                           [id |-> "a8", label |-> "L2", typename |-> "TextChamp"] >>] >>

AnnotationIds == UNION {{a.id : a \in Range(c.annotations)} : c \in Range(DsCases)}
Unset == "<unset>"

\* get_dossier_annotations, lines 205-212: each annotation with its ds_type
WithDsType(a) == [id |-> a.id, label |-> a.label,
                  ds_type |-> _normalize_annotation_type(a.typename)]

get_dossier_annotations(dossier_number) ==
    LET c == CHOOSE c \in Range(DsCases) : c.number = dossier_number
    IN  MapSeq(WithDsType, c.annotations)

\* execute_sync, line 425: {dossier['number']: dossier['id'] ...}
DossierMapping(dossiers) == [n \in {c.number : c \in Range(dossiers)} |->
                                (CHOOSE c \in Range(dossiers) : c.number = n).id]

\* ------------------------------------------------------------------------
\* SyncEngine.sync_record: helpers
\* ------------------------------------------------------------------------
\* int(raw.strip()) on the literals of the model: the integer, or ValueError
IntOfStr(s) ==
    CASE s = "101" -> [ok |-> TRUE, n |-> 101]
      [] s = " 102 " -> [ok |-> TRUE, n |-> 102]
      [] s = "103" -> [ok |-> TRUE, n |-> 103]
      [] s = "104" -> [ok |-> TRUE, n |-> 104]
      [] s = "482" -> [ok |-> TRUE, n |-> 482]
      [] s = "-5" -> [ok |-> TRUE, n |-> -5]
      [] s = "0" -> [ok |-> TRUE, n |-> 0]
      [] s = "42" -> [ok |-> TRUE, n |-> 42]
      [] OTHER -> [ok |-> FALSE, n |-> 0]

\* a conversion that does not trim the string
ParseDossierNumberUntrimmed(raw) ==
    IF raw \in {"101", "103", "104", "482"} THEN [ok |-> TRUE, n |-> IntOfStr(raw).n, raised |-> FALSE]
    ELSE IF raw = "<42>" THEN [ok |-> TRUE, n |-> 42, raised |-> FALSE]
    ELSE [ok |-> FALSE, n |-> 0, raised |-> FALSE]

\* sync_record, lines 217-231: the dossier number, when the raw value gives one.
\* raised: int(float('inf')) raises OverflowError, which the handler of line
\* 229 does not catch and the handler of line 332 does.
ParseDossierNumber(raw) ==
    LET p == CASE IsStr(raw) -> IntOfStr(raw)
               [] raw = PyTrue -> [ok |-> TRUE, n |-> 1]
               [] raw = "<42>" -> [ok |-> TRUE, n |-> 42]
               [] raw = "<7>" -> [ok |-> TRUE, n |-> 7]
               [] raw = "<101.0>" -> [ok |-> TRUE, n |-> 101]
               [] OTHER -> [ok |-> FALSE, n |-> 0]
    IN  IF p.ok /\ p.n > 0
        THEN [ok |-> TRUE, n |-> p.n, raised |-> FALSE]
        ELSE [ok |-> FALSE, n |-> 0, raised |-> raw = "<inf>"]

\* annotations_by_label[label]: the dict keeps the last annotation of a label
HasLabel(annotations, label) == \E i \in 1..Len(annotations) : annotations[i].label = label
annotations_by_label(annotations, label) ==
    LET last == CHOOSE i \in 1..Len(annotations) :
                    /\ annotations[i].label = label
                    /\ \A j \in (i + 1)..Len(annotations) : annotations[j].label /= label
    IN  annotations[last]

\* {**config.annotation_types, **dynamic_annotation_types}.get(label, 'text')
\* config.annotation_types holds Absent for a label that has no configured type
ConfiguredType(annotation_types, label) ==
    IF label \in DOMAIN annotation_types THEN annotation_types[label] ELSE Absent

final_annotation_type(annotation_types, annotations, label) ==
    IF HasLabel(annotations, label) THEN annotations_by_label(annotations, label).ds_type
    ELSE IF ConfiguredType(annotation_types, label) /= Absent
         THEN ConfiguredType(annotation_types, label)
    ELSE "text"

\* sync_record, lines 271-276: the field is skipped
SkipField(value, ds_type) ==
    value = Absent \/ value = PyNone \/ (value = "" /\ ds_type /= "checkbox")

\* a dispatch that refuses a type it does not recognise
update_annotation_by_type_strict(value, annotation_type) ==
    LET ds_type == NormalizeDsType(annotation_type)
        op == IF ds_type \in TextDsTypes THEN "text" ELSE ds_type
        known == ds_type \in TextDsTypes \cup DateDsTypes
                              \cup {"checkbox", "integer_number", "decimal_number",
                                    "drop_down_list"}
        sent == CASE op \in {"text", "drop_down_list"} -> PyStr(value)
                  [] op \in {"date", "datetime"} -> PyStr(format_value_for_ds(value, op))
                  [] OTHER -> format_value_for_ds(value, op)
    IN  IF ~Truthy(value) /\ value \notin {PyFalse, PyZero}
        THEN [call |-> FALSE, ok |-> TRUE, op |-> "none", value |-> PyNone]
        ELSE IF ~known \/ sent = OverflowError
        THEN [call |-> FALSE, ok |-> FALSE, op |-> IF known THEN op ELSE "none",
              value |-> PyNone]
        ELSE [call |-> TRUE, ok |-> TRUE, op |-> op, value |-> sent]

\* update_annotation_by_type: what it does with the value.
\*   call = FALSE, ok = TRUE  : "Valeur vide ignoree", no request is sent
\*   call = FALSE, ok = FALSE : the formatting raised, caught, no request sent
\*   call = TRUE              : one mutation `op` is sent with `value`
update_annotation_by_type(value, annotation_type) ==
    LET ds_type == NormalizeDsType(annotation_type)
        op == CASE ds_type \in TextDsTypes -> "text"
                [] ds_type = "checkbox" -> "checkbox"
                [] ds_type = "date" -> "date"
                [] ds_type = "datetime" -> "datetime"
                [] ds_type = "integer_number" -> "integer_number"
                [] ds_type = "decimal_number" -> "decimal_number"
                [] ds_type = "drop_down_list" -> "drop_down_list"
                [] OTHER -> "text"
        sent == CASE op \in {"text", "drop_down_list"} -> PyStr(value)
                  [] op \in {"date", "datetime"} -> PyStr(format_value_for_ds(value, op))
                  [] OTHER -> format_value_for_ds(value, op)
    IN  IF ~Truthy(value) /\ value \notin {PyFalse, PyZero}
        THEN [call |-> FALSE, ok |-> TRUE, op |-> "none", value |-> PyNone]
        ELSE IF sent = OverflowError
        THEN [call |-> FALSE, ok |-> FALSE, op |-> op, value |-> PyNone]
        ELSE [call |-> TRUE, ok |-> TRUE, op |-> op, value |-> sent]

\* sync_record, lines 326-330
final_status(errors, updates) ==
    IF errors /= <<>>
    THEN IF updates /= <<>> THEN "partial_error" ELSE "error"
    ELSE "success"

\* ------------------------------------------------------------------------
\* SyncEngine: configuration and reports
\* ------------------------------------------------------------------------
RequiredFields ==
    << "grist_base_url", "grist_token", "grist_doc_id", "grist_table_id",
       "dossier_number_column", "ds_token", "ds_instructeur_id",
       "ds_demarche_number", "column_mapping" >>

\* not getattr(self.config, field)
FieldMissing(cfg, field) ==
    IF field = "column_mapping" THEN cfg.column_mapping = <<>> ELSE field \in cfg.missing

\* a validation that does not look at the DS connection test
validate_config_without_ds(cfg, gristOk, dsOk) ==
    (IF cfg.missing /= {} \/ cfg.column_mapping = <<>>
     THEN <<"Champ requis manquant">> ELSE <<>>)
    \o (IF ~gristOk THEN <<"Connexion Grist echouee">> ELSE <<>>)

\* validate_config: the list of errors
validate_config(cfg, gristOk, dsOk) ==
    MapSeq(LAMBDA f : "Champ requis manquant: " \o f,
           SelectSeq(RequiredFields, LAMBDA f : FieldMissing(cfg, f)))
    \o (IF cfg.column_mapping = <<>> THEN <<"Le mapping des colonnes est vide">> ELSE <<>>)
    \o (IF ~gristOk THEN <<"Connexion Grist echouee">> ELSE <<>>)
    \o (IF ~dsOk THEN <<"Connexion DS echouee">> ELSE <<>>)

Diagnostic(error, status) == [error |-> error, status |-> status]

\* The SyncResult values execute_sync returns (execution_time is not modelled)
SyncResult(success, processed, successful, outcomes, details) ==
    [success |-> success, processed |-> processed, successful |-> successful,
     errors |-> Len(details), results |-> outcomes, error_details |-> details]

\* lines 348-356
ConfigErrorResult(config_errors) ==
    SyncResult(FALSE, 0, 0, <<>>,
               MapSeq(LAMBDA e : Diagnostic(e, "config_error"), config_errors))
\* lines 377-385
GristErrorResult == SyncResult(FALSE, 0, 0, <<>>, <<Diagnostic("Erreur Grist", "grist_error")>>)
\* lines 389-397
NothingToSyncResult == SyncResult(TRUE, 0, 0, <<>>, <<>>)
\* lines 414-422
DsErrorResult ==
    SyncResult(FALSE, 0, 0, <<>>,
               <<Diagnostic("Erreur recuperation dossiers DS", "ds_error")>>)
\* a final report whose success flag follows the outcomes of the records
CompletedResultIfNoError(records, successful, outcomes, details) ==
    [success |-> details = <<>>, processed |-> Len(records), successful |-> successful,
     errors |-> Len(details), results |-> outcomes, error_details |-> details]

\* lines 461-469
CompletedResult(records, successful, outcomes, details) ==
    SyncResult(TRUE, Len(records), successful, outcomes, details)
\* a handler that reports the exception and its traceback as two entries
UnexpectedErrorResultWithTrace(e) ==
    [success |-> FALSE, processed |-> 0, successful |-> 0, errors |-> 2, results |-> <<>>,
     error_details |-> << [error |-> e, status |-> "unexpected_error"],
                          [error |-> "Traceback", status |-> "unexpected_error"] >>]

\* lines 473-481
UnexpectedErrorResult(e) == SyncResult(FALSE, 0, 0, <<>>, <<Diagnostic(e, "unexpected_error")>>)

\* a write-back that is not guarded by dry_run
WritesBookkeepingInDryRun(cfg) == cfg.update_grist_status

\* line 442: the bookkeeping write-back is made
WritesBookkeeping(cfg) == cfg.update_grist_status /\ ~cfg.dry_run

\* a classification that counts 'partial_error' as a success
IsSuccessfulOrPartial(sync_result) == sync_result.status \in {"success", "partial_error"}

\* lines 435-439
IsSuccessful(sync_result) == sync_result.status = "success"

\* validate_data_compatibility, lines 143-158: a check_compatibility call on
\* one of the sample values raises
SampleSize == 5
ValidateDataCompatibilityRaises(cfg, column_types, records, reachable) ==
    \E i \in 1..Len(cfg.column_mapping), k \in 1..Len(Take(records, SampleSize)) :
        LET m == cfg.column_mapping[i]
            ds_type == IF ConfiguredType(cfg.annotation_types, m.label) /= Absent
                       THEN ConfiguredType(cfg.annotation_types, m.label) ELSE "text"
            value == records[k].fields[m.col]
        IN  /\ value \notin {Absent, PyNone, ""}
            /\ check_compatibility(get_column_type(column_types, m.col, reachable),
                                   ds_type, value)
                 = OverflowError

OverflowMessage == "cannot convert float infinity to integer"

\* ------------------------------------------------------------------------
\* The configurations and source tables of the model
\* ------------------------------------------------------------------------
MaxLimit == 2

FullMapping == << [col |-> "c1", label |-> "L1"], [col |-> "c2", label |-> "L2"] >>
\* config.annotation_types: Absent marks a label that has no configured type
NoTypes == [L1 |-> Absent, L2 |-> Absent]
StaticTypes == [L1 |-> Absent, L2 |-> "integer_number"]

ValidConfigs ==
    [dry_run : BOOLEAN, update_grist_status : BOOLEAN, detect_changes : BOOLEAN,
     limit : 1..MaxLimit, column_mapping : {FullMapping},
     annotation_types : {NoTypes, StaticTypes}, missing : {{}}]
InvalidConfigs ==
    [dry_run : {FALSE}, update_grist_status : {TRUE}, detect_changes : {TRUE},
     limit : {MaxLimit}, column_mapping : {<<>>, FullMapping},
     annotation_types : {NoTypes}, missing : {{}, {"ds_token"}, {"grist_token", "ds_token"}}]
    \ ValidConfigs

Row(dossier, c1, c2, status, hash) ==
    [dossier |-> dossier, c1 |-> c1, c2 |-> c2, sync_status |-> status, sync_hash |-> hash]

StaleHash == "0123456789ab"
SourceRows ==
    { Row("101", "42", "42", PyNone, Absent),
      Row("101", "42", "inf", "error", Absent),
      Row("101", "inf", "42", "", Absent),
      Row("101", "abc", "7", "pending", Absent),
      Row("101", "abc", "abc", "error", StaleHash),
      Row("101", "", PyNone, PyNone, Absent),
      Row(" 102 ", "abc", "abc", Absent, Absent),
      Row("482", "42", "42", PyNone, Absent),
      Row("", "42", "42", PyNone, Absent),
      Row("101", "42", "7", "success",
          calculate_data_hash([c1 |-> "42", c2 |-> "7"], <<"c1", "c2">>)),
      Row("101", "7", "42", "success", StaleHash),
      Row("101", "42", "42", "other", Absent) }

Tables == {<< [id |-> 1, fields |-> r1], [id |-> 2, fields |-> r2] >> : r1, r2 \in SourceRows}

\* ------------------------------------------------------------------------
\* State
\* ------------------------------------------------------------------------
VARIABLES
    config,            \* the SyncConfig of the engine
    table,             \* the Grist table: the records, in table order
    columns,           \* the Grist table: column id -> type of the column
    dsValues,          \* the destination: annotation id -> value last written
    pc,                \* where execute_sync is
    grist_records,     \* execute_sync: the records to synchronise
    dossier_mapping,   \* execute_sync: dossier number -> dossier id
    ri,                \* execute_sync: index of the record of the for loop
    results,           \* execute_sync: the outcomes with status 'success'
    error_details,     \* execute_sync: the other outcomes
    successful_count,  \* execute_sync
    result,            \* sync_record: the result dict being built
    annotations,       \* sync_record: the annotations fetched for the record
    fi,                \* sync_record: index of the mapping entry of the for loop
    seen,              \* history, per sync_record call: entries examined, entries in error
    report,            \* <<>>, or <<the SyncResult execute_sync returned>>
    hist,              \* history of the calls the run made to Grist and DS
    runs,              \* history: number of execute_sync calls started
    edits,             \* history: number of edits made to the table from outside
    prev,              \* history, per record id: its last synchronisation
    call,              \* a call of one helper on its own: the function and its arguments
    ret                \* what that call returned (NoReturn: nothing yet)

vars == << config, table, columns, dsValues, pc, grist_records, dossier_mapping, ri, results,
           error_details, successful_count, result, annotations, fi, seen, report, hist,
           runs, edits, prev, call, ret >>

runVars == << grist_records, dossier_mapping, ri, results, error_details, successful_count >>
recVars == << result, annotations, fi, seen >>
counters == << runs, edits >>
callVars == << call, ret >>

\* no helper is called on its own; a call that has not returned
NoCall == [fn |-> "<none>"]
NoReturn == "<no return>"
NoResult == [grist_record_id |-> 0, dossier_number |-> 0, dossier_uuid |-> PyNone,
             updates |-> <<>>, errors |-> <<>>, status |-> "pending"]
NoSeen == [examined |-> {}, errors |-> {}, raised |-> FALSE]
\* tested: the connection tests were made, with results grist_ok and ds_ok;
\* cause: why the run ended early ("": it did not); selected: the selection was
\* made, on the table as `listed`, and kept `candidates` before truncation
NoHist == [tested |-> FALSE, grist_ok |-> FALSE, ds_ok |-> FALSE, cause |-> "",
           list_records |-> 0, list_dossiers |-> 0, fetches |-> <<>>, updates |-> <<>>,
           writes |-> <<>>, synced |-> <<>>, selected |-> FALSE, listed |-> <<>>,
           candidates |-> <<>>]
\* What a listing call can give: the list, an error, or a response that lacks
\* the keys the caller reads
ListingOutcomes == {"ok", "error", "malformed"}
\* prev[id]: the run that last synchronised the record (0: none), the status of
\* its outcome, whether the write-back reached Grist, and the mapped fields the
\* record had when it was selected
NoPrev == [run |-> 0, status |-> "none", written |-> FALSE, c1 |-> Absent, c2 |-> Absent]

InitRun ==
    /\ pc = "validate"
    /\ grist_records = <<>>
    /\ dossier_mapping = DossierMapping(<<>>)
    /\ ri = 0
    /\ results = <<>>
    /\ error_details = <<>>
    /\ successful_count = 0
    /\ result = NoResult
    /\ annotations = <<>>
    /\ fi = 0
    /\ seen = NoSeen
    /\ report = <<>>
    /\ hist = NoHist

Init ==
    /\ config \in ValidConfigs \cup InvalidConfigs
    /\ table \in Tables
    /\ dsValues = [a \in AnnotationIds |-> Unset]
    /\ runs = 1
    /\ edits = 0
    /\ prev = [id \in {r.id : r \in Range(table)} |-> NoPrev]
    /\ columns = GristColumnTypes
    /\ call = NoCall
    /\ ret = NoReturn
    /\ InitRun

\* ------------------------------------------------------------------------
\* SyncEngine.execute_sync
\* ------------------------------------------------------------------------
Return(r) == report' = <<r>> /\ pc' = "done"

\* lines 345-356: validate_config, with the two connection tests
ValidateConfig ==
    /\ pc = "validate"
    /\ \E gristOk, dsOk \in BOOLEAN :
         LET config_errors == validate_config(config, gristOk, dsOk)
             tested == [hist EXCEPT !.tested = TRUE, !.grist_ok = gristOk, !.ds_ok = dsOk]
         IN  IF config_errors /= <<>>
             THEN /\ Return(ConfigErrorResult(config_errors))
                  /\ hist' = [tested EXCEPT !.cause = "config"]
             ELSE /\ pc' = "select" /\ report' = report
                  /\ hist' = tested
    /\ UNCHANGED << callVars, columns, config, table, dsValues, runVars, recVars, counters, prev >>

\* lines 359-403: the records to synchronise, truncated to the limit.
\* listing: what get_table_data gives. get_records_to_sync catches the
\* exception of a malformed response and returns an error (lines 206-208);
\* without bookkeeping the KeyError of line 374 reaches the handler of line 471.
SelectRecords ==
    /\ pc = "select"
    /\ \E listing \in ListingOutcomes :
         LET columns_to_sync == MapSeq(LAMBDA m : m.col, config.column_mapping)
             listed == IF config.update_grist_status
                       THEN get_records_to_sync(table, columns_to_sync, config.detect_changes)
                       ELSE MapSeq(Plain, Take(table, config.limit))
             called == [hist EXCEPT !.list_records = @ + 1]
             chosen == [called EXCEPT !.selected = TRUE, !.listed = table,
                                      !.candidates = MapSeq(LAMBDA r : r.id, listed)]
         IN  IF listing = "malformed" /\ ~config.update_grist_status
             THEN Return(UnexpectedErrorResult("'records'")) /\ grist_records' = grist_records
                  /\ hist' = [called EXCEPT !.cause = "exception"]
             ELSE IF listing /= "ok"
             THEN Return(GristErrorResult) /\ grist_records' = grist_records
                  /\ hist' = [called EXCEPT !.cause = "grist"]
             ELSE IF listed = <<>>
             THEN Return(NothingToSyncResult) /\ grist_records' = grist_records
                  /\ hist' = chosen
             ELSE /\ grist_records' = Take(listed, config.limit)
                  /\ pc' = "compatibility"
                  /\ report' = report
                  /\ hist' = chosen
    /\ UNCHANGED << callVars, columns, config,
                    table, dsValues, dossier_mapping, ri, results, error_details,
                    successful_count, recVars, counters, prev >>

\* lines 405-409: validate_data_compatibility; its report is only logged, but
\* an exception of check_compatibility leaves through the handler of line 471.
\* reachable: the column metadata of Grist can be fetched.
ValidateDataCompatibility ==
    /\ pc = "compatibility"
    /\ \E reachable \in BOOLEAN :
         IF ValidateDataCompatibilityRaises(config, columns, grist_records, reachable)
         THEN Return(UnexpectedErrorResult(OverflowMessage))
              /\ hist' = [hist EXCEPT !.cause = "exception"]
         ELSE pc' = "dossiers" /\ report' = report /\ hist' = hist
    /\ UNCHANGED << callVars, columns, config, table, dsValues, runVars, recVars, counters, prev >>

\* lines 411-430: the cases of the demarche, listed once.
\* listing: what get_dossiers gives; a case without 'number' or 'id' makes
\* line 425 raise KeyError.
ListDossiers ==
    /\ pc = "dossiers"
    /\ \E listing \in ListingOutcomes :
         LET called == [hist EXCEPT !.list_dossiers = @ + 1]
         IN  CASE listing = "error" ->
                    /\ Return(DsErrorResult)
                    /\ hist' = [called EXCEPT !.cause = "ds"]
                    /\ UNCHANGED << dossier_mapping, ri >>
               [] listing = "malformed" ->
                    /\ Return(UnexpectedErrorResult("'number'"))
                    /\ hist' = [called EXCEPT !.cause = "exception"]
                    /\ UNCHANGED << dossier_mapping, ri >>
               [] OTHER ->
                    /\ dossier_mapping' = DossierMapping(DsCases)
                    /\ ri' = 1
                    /\ pc' = "record"
                    /\ report' = report
                    /\ hist' = called
    /\ UNCHANGED << callVars, columns, config,
                    table, dsValues, grist_records, results, error_details,
                    successful_count, recVars, counters, prev >>

\* ------------------------------------------------------------------------
\* SyncEngine.sync_record
\* ------------------------------------------------------------------------
Failed(res, message) ==
    [res EXCEPT !.errors = Append(@, message), !.status = "error"]

\* a message that does not say which dossier is unknown
UnknownDossierMessageUnnamed(dossier_number) == "Dossier non trouve dans la demarche"

\* line 237
UnknownDossierMessage(dossier_number) ==
    "Dossier " \o ToString(dossier_number) \o " non trouve dans la demarche"

\* lines 191-249: the dossier number, the dossier id and the annotations.
\* fetchOk: get_dossier_annotations succeeds.
SyncRecordBegin ==
    /\ pc = "record"
    /\ ri <= Len(grist_records)
    /\ LET fields == grist_records[ri].fields
           raw == fields[DossierColumn]
           parsed == ParseDossierNumber(raw)
           start == [NoResult EXCEPT !.grist_record_id = grist_records[ri].id]
           numbered == [start EXCEPT !.dossier_number = parsed.n]
           found == [numbered EXCEPT !.dossier_uuid = dossier_mapping[parsed.n]]
           called == [hist EXCEPT !.synced = Append(@, grist_records[ri].id)]
       IN  /\ seen' = NoSeen
           /\ fi' = 1
           /\ IF raw = Absent
              THEN /\ result' = Failed(start, "Colonne dossier introuvable")
                   /\ pc' = "classify"
                   /\ hist' = called
                   /\ UNCHANGED annotations
              ELSE IF ~Truthy(raw)
              THEN /\ result' = Failed(start, "Numero de dossier vide")
                   /\ pc' = "classify"
                   /\ hist' = called
                   /\ UNCHANGED annotations
              ELSE IF ~parsed.ok
              THEN /\ result' = Failed(start, IF parsed.raised THEN OverflowMessage
                                               ELSE "Numero de dossier invalide: " \o PyStr(raw))
                   /\ pc' = "classify"
                   /\ hist' = called
                   /\ UNCHANGED annotations
              ELSE IF parsed.n \notin DOMAIN dossier_mapping
              THEN /\ result' = Failed(numbered, UnknownDossierMessage(parsed.n))
                   /\ pc' = "classify"
                   /\ hist' = called
                   /\ UNCHANGED annotations
              ELSE \E fetchOk \in BOOLEAN :
                     /\ hist' = [called EXCEPT !.fetches =
                                    Append(@, [record |-> grist_records[ri].id,
                                               dossier |-> parsed.n])]
                     /\ IF ~fetchOk
                        THEN /\ result' = Failed(found, "Erreur recuperation annotations")
                             /\ pc' = "classify"
                             /\ UNCHANGED annotations
                        ELSE /\ result' = found
                             /\ annotations' = get_dossier_annotations(parsed.n)
                             /\ pc' = "field"
    /\ UNCHANGED << callVars, columns, config, table, dsValues, runVars, report, counters, prev >>

UpdateEntry(m, annotation, value, ds_type, grist_type, compatibility, status) ==
    [grist_column |-> m.col, annotation_label |-> m.label, annotation_id |-> annotation.id,
     value |-> value, ds_type |-> ds_type, grist_type |-> grist_type,
     compatibility |-> compatibility, status |-> status]

\* lines 270-324: one iteration of the loop over config.column_mapping.
\* reachable: the column metadata of Grist can be fetched;
\* accepted: DS accepts the mutation, when one is sent.
SyncField ==
    /\ pc = "field"
    /\ fi <= Len(config.column_mapping)
    /\ \E reachable, accepted \in BOOLEAN :
         LET m == config.column_mapping[fi]
             value == grist_records[ri].fields[m.col]
             ds_type == final_annotation_type(config.annotation_types, annotations, m.label)
             grist_type == get_column_type(columns, m.col, reachable)
             compatibility == check_compatibility(grist_type, ds_type, value)
             annotation == annotations_by_label(annotations, m.label)
             update == update_annotation_by_type(value, ds_type)
             examined == [seen EXCEPT !.examined = @ \cup {fi}]
             inError == [examined EXCEPT !.errors = @ \cup {fi}]
             continue == fi' = fi + 1 /\ pc' = "field"
         IN  IF SkipField(value, ds_type)
             THEN /\ continue
                  /\ seen' = examined
                  /\ UNCHANGED << result, dsValues, hist >>
             ELSE IF ~HasLabel(annotations, m.label)
             THEN /\ continue
                  /\ seen' = inError
                  /\ result' = [result EXCEPT !.errors =
                                   Append(@, "Annotation '" \o m.label \o "' non trouvee")]
                  /\ UNCHANGED << dsValues, hist >>
             ELSE IF compatibility = OverflowError
             THEN \* the exception leaves the loop through the handler of line 332
                  /\ fi' = fi
                  /\ pc' = "classify"
                  /\ seen' = [inError EXCEPT !.raised = TRUE]
                  /\ result' = Failed(result, OverflowMessage)
                  /\ UNCHANGED << dsValues, hist >>
             ELSE IF compatibility = "incompatible"
             THEN /\ continue
                  /\ seen' = inError
                  /\ result' = [result EXCEPT !.errors =
                                   Append(@, "Types incompatibles pour " \o m.col \o ": "
                                               \o grist_type \o " -> " \o ds_type)]
                  /\ UNCHANGED << dsValues, hist >>
             ELSE IF config.dry_run
             THEN /\ continue
                  /\ seen' = examined
                  /\ result' = [result EXCEPT !.updates =
                                   Append(@, UpdateEntry(m, annotation, value, ds_type,
                                                         grist_type, compatibility, "dry_run"))]
                  /\ UNCHANGED << dsValues, hist >>
             ELSE /\ continue
                  /\ hist' = IF update.call
                             THEN [hist EXCEPT !.updates =
                                      Append(@, [record |-> grist_records[ri].id,
                                                 dossier |-> result.dossier_uuid,
                                                 annotation |-> annotation.id,
                                                 op |-> update.op, value |-> update.value,
                                                 accepted |-> accepted])]
                             ELSE hist
                  /\ dsValues' = IF update.call /\ accepted
                                 THEN [dsValues EXCEPT ![annotation.id] = update.value]
                                 ELSE dsValues
                  /\ IF update.ok /\ (update.call => accepted)
                     THEN /\ seen' = examined
                          /\ result' = [result EXCEPT !.updates =
                                           Append(@, UpdateEntry(m, annotation, value, ds_type,
                                                      grist_type, compatibility, "success"))]
                     ELSE /\ seen' = inError
                          /\ result' = [result EXCEPT !.errors =
                                           Append(@, "Erreur mise a jour " \o m.label)]
    /\ UNCHANGED << callVars, columns, config,
                    table, runVars, annotations, report, counters, prev >>

\* lines 326-337: the loop is over, the final status
SyncRecordEnd ==
    /\ pc = "field"
    /\ fi > Len(config.column_mapping)
    /\ result' = [result EXCEPT !.status = final_status(result.errors, result.updates)]
    /\ pc' = "classify"
    /\ UNCHANGED << callVars, columns, config,
                    table, dsValues, runVars, annotations, fi, seen, report, hist,
                    counters, prev >>

\* ------------------------------------------------------------------------
\* SyncEngine.execute_sync: after sync_record
\* ------------------------------------------------------------------------
\* update_record: the fields written are merged into the record `id`
Patched(records, id, written) ==
    [i \in 1..Len(records) |->
        IF records[i].id = id
        THEN [records[i] EXCEPT
                !.fields = [@ EXCEPT !.sync_status = written.sync_status,
                                     !.sync_hash = IF written.sync_hash = Absent
                                                   THEN @ ELSE written.sync_hash]]
        ELSE records[i]]

\* a loop that leaves at the first record in error
next_record_stops_on_error(i, sync_result) ==
    IF sync_result.status = "error" THEN i + 2 ELSE i + 1

\* line 432: the for loop goes to the next record, whatever the outcome
next_record(i, sync_result) == i + 1

Synchronised(record, sync_result, written) ==
    [run |-> runs, status |-> sync_result.status, written |-> written,
     c1 |-> record.fields.c1, c2 |-> record.fields.c2]

\* an update_record that lets the failure of the request escape
update_record_raising(accepted) == IF accepted THEN "ok" ELSE "raised"

\* GristClient.update_record: (True, ...) when Grist accepts the request,
\* (False, ...) on any other HTTP answer and on any exception
update_record(accepted) == IF accepted THEN "ok" ELSE "failed"

\* lines 435-455: the outcome is classified, the bookkeeping fields are
\* written back; what update_sync_status returns is not looked at, an
\* exception of it would reach the handler of line 471.
\* writeOk: Grist accepts the update of the record.
RecordDone ==
    /\ pc = "classify"
    /\ IF IsSuccessful(result)
       THEN /\ results' = Append(results, result)
            /\ successful_count' = successful_count + 1
            /\ UNCHANGED error_details
       ELSE /\ error_details' = Append(error_details, result)
            /\ UNCHANGED << results, successful_count >>
    /\ IF WritesBookkeeping(config)
       THEN \E writeOk \in BOOLEAN :
              LET written == update_sync_status_fields(result.status = "success",
                                                       grist_records[ri].current_hash)
                  wrote == [hist EXCEPT !.writes =
                                 Append(@, [record |-> grist_records[ri].id,
                                            fields |-> written, ok |-> writeOk])]
              IN  /\ table' = IF writeOk
                              THEN Patched(table, grist_records[ri].id, written)
                              ELSE table
                  /\ prev' = [prev EXCEPT ![grist_records[ri].id] =
                                 Synchronised(grist_records[ri], result, writeOk)]
                  /\ IF update_record(writeOk) = "raised"
                     THEN /\ Return(UnexpectedErrorResult("update_record"))
                          /\ hist' = [wrote EXCEPT !.cause = "exception"]
                          /\ ri' = ri
                     ELSE /\ hist' = wrote
                          /\ ri' = next_record(ri, result)
                          /\ pc' = "record"
                          /\ report' = report
       ELSE /\ prev' = [prev EXCEPT ![grist_records[ri].id] =
                           Synchronised(grist_records[ri], result, FALSE)]
            /\ ri' = next_record(ri, result)
            /\ pc' = "record"
            /\ UNCHANGED << table, hist, report >>
    /\ UNCHANGED << callVars, columns, config,
                    dsValues, grist_records, dossier_mapping, recVars, counters >>

\* lines 457-469
FinishRun ==
    /\ pc = "record"
    /\ ri > Len(grist_records)
    /\ Return(CompletedResult(grist_records, successful_count, results, error_details))
    /\ UNCHANGED << callVars, columns, config,
                    table, dsValues, runVars, recVars, hist, counters, prev >>

Next ==
    \/ ValidateConfig
    \/ SelectRecords
    \/ ValidateDataCompatibility
    \/ ListDossiers
    \/ SyncRecordBegin
    \/ SyncField
    \/ SyncRecordEnd
    \/ RecordDone
    \/ FinishRun

Spec == Init /\ [][Next]_vars

\* One call of execute_sync as a sequential program: a step that can be taken
\* is taken. The runs are those of Spec on a sample of its initial states.
TerminationConfigs ==
    {c \in ValidConfigs : ~c.dry_run /\ c.detect_changes}
    \cup {c \in InvalidConfigs : c.column_mapping = <<>> /\ c.missing = {}}
TerminationRows ==
    { Row("101", "42", "42", PyNone, Absent),
      Row("101", "42", "inf", "error", Absent),
      Row("482", "42", "42", PyNone, Absent) }
TerminationInit ==
    /\ config \in TerminationConfigs
    /\ table \in {<< [id |-> 1, fields |-> r1], [id |-> 2, fields |-> r2] >> :
                     r1, r2 \in TerminationRows}
    /\ dsValues = [a \in AnnotationIds |-> Unset]
    /\ runs = 1
    /\ edits = 0
    /\ prev = [id \in {r.id : r \in Range(table)} |-> NoPrev]
    /\ columns = GristColumnTypes
    /\ call = NoCall
    /\ ret = NoReturn
    /\ InitRun
FairSpec == TerminationInit /\ [][Next]_vars /\ WF_vars(Next)

\* ------------------------------------------------------------------------
\* Several runs of execute_sync on the same table, with edits of the mapped
\* columns made from outside between two runs
\* ------------------------------------------------------------------------
MaxRuns == 2
MaxEdits == 1
EditValues == {"7", "abc"}

\* bookkeeping on, dry-run off, change detection on
BookkeepingConfigs ==
    [dry_run : {FALSE}, update_grist_status : {TRUE}, detect_changes : {TRUE},
     limit : 1..MaxLimit, column_mapping : {FullMapping},
     annotation_types : {NoTypes}, missing : {{}}]

RerunRows ==
    { Row("101", "42", "42", PyNone, Absent),
      Row("101", "abc", "7", "pending", Absent),
      Row("101", "7", "42", "success", StaleHash),
      Row("101", "42", "7", "success",
          calculate_data_hash([c1 |-> "42", c2 |-> "7"], <<"c1", "c2">>)) }

RerunTables == {<< [id |-> 1, fields |-> r1], [id |-> 2, fields |-> r2] >> : r1, r2 \in RerunRows}

InitRuns ==
    /\ config \in BookkeepingConfigs
    /\ table \in RerunTables
    /\ dsValues = [a \in AnnotationIds |-> Unset]
    /\ runs = 1
    /\ edits = 0
    /\ prev = [id \in {r.id : r \in Range(table)} |-> NoPrev]
    /\ columns = GristColumnTypes
    /\ call = NoCall
    /\ ret = NoReturn
    /\ InitRun

\* execute_sync is called again on the same engine: the locals start afresh,
\* the table and the destination are as the previous run left them
StartRun ==
    /\ pc = "done"
    /\ runs < MaxRuns
    /\ runs' = runs + 1
    /\ pc' = "validate"
    /\ grist_records' = <<>>
    /\ dossier_mapping' = DossierMapping(<<>>)
    /\ ri' = 0
    /\ results' = <<>>
    /\ error_details' = <<>>
    /\ successful_count' = 0
    /\ result' = NoResult
    /\ annotations' = <<>>
    /\ fi' = 0
    /\ seen' = NoSeen
    /\ report' = <<>>
    /\ hist' = NoHist
    /\ UNCHANGED << callVars, columns, config, table, dsValues, edits, prev >>

\* A user of the Grist document changes a mapped column of a record
ExternalEdit ==
    /\ pc = "done"
    /\ runs < MaxRuns
    /\ edits < MaxEdits
    /\ \E i \in 1..Len(table), m \in Range(config.column_mapping), v \in EditValues :
         /\ table[i].fields[m.col] /= v
         /\ table' = [table EXCEPT ![i].fields[m.col] = v]
    /\ edits' = edits + 1
    /\ UNCHANGED << callVars, columns, config,
                    dsValues, pc, runVars, recVars, report, hist, runs, prev >>

NextRuns ==
    \/ ValidateConfig
    \/ SelectRecords
    \/ ValidateDataCompatibility
    \/ ListDossiers
    \/ SyncRecordBegin
    \/ SyncField
    \/ SyncRecordEnd
    \/ RecordDone
    \/ FinishRun
    \/ StartRun
    \/ ExternalEdit

SpecRuns == InitRuns /\ [][NextRuns]_vars

\* ------------------------------------------------------------------------
\* execute_sync called again and again on a table that nobody edits, with
\* bookkeeping on and dry-run off. The calls are not counted, so that they can
\* go on for ever.
\* ------------------------------------------------------------------------
RepeatConfigs ==
    [dry_run : {FALSE}, update_grist_status : {TRUE}, detect_changes : {TRUE},
     limit : 1..MaxLimit, column_mapping : {FullMapping},
     annotation_types : {NoTypes}, missing : {{}}]

\* dossier 482 is not in the demarche: its record fails in every run
RepeatRows ==
    { Row("482", "42", "42", PyNone, Absent),
      Row("101", "42", "42", PyNone, Absent),
      Row("101", "abc", "7", "error", Absent),
      Row("101", "42", "7", "success",
          calculate_data_hash([c1 |-> "42", c2 |-> "7"], <<"c1", "c2">>)) }

RepeatInit ==
    /\ config \in RepeatConfigs
    /\ table \in {<< [id |-> 1, fields |-> r1], [id |-> 2, fields |-> r2] >> :
                     r1, r2 \in RepeatRows}
    /\ columns = GristColumnTypes
    /\ dsValues = [a \in AnnotationIds |-> Unset]
    /\ runs = 1
    /\ edits = 0
    /\ prev = [id \in {r.id : r \in Range(table)} |-> NoPrev]
    /\ call = NoCall
    /\ ret = NoReturn
    /\ InitRun

RepeatRun ==
    /\ pc = "done"
    /\ pc' = "validate"
    /\ grist_records' = <<>>
    /\ dossier_mapping' = DossierMapping(<<>>)
    /\ ri' = 0
    /\ results' = <<>>
    /\ error_details' = <<>>
    /\ successful_count' = 0
    /\ result' = NoResult
    /\ annotations' = <<>>
    /\ fi' = 0
    /\ seen' = NoSeen
    /\ report' = <<>>
    /\ hist' = NoHist
    /\ UNCHANGED << callVars, columns, config, table, dsValues, counters, prev >>

RepeatNext == Next \/ RepeatRun

\* a run that was started goes on to its return, and a new run is started
\* after each return
RepeatSpec == RepeatInit /\ [][RepeatNext]_vars /\ WF_vars(Next) /\ WF_vars(RepeatRun)

\* ------------------------------------------------------------------------
\* Runs on a table of one record, over the values a dossier number and a
\* mapped field can hold; no bookkeeping column
\* ------------------------------------------------------------------------
DossierValues ==
    { Absent, "", PyNone, PyZero, "abc", "-5", "0", "<inf>",
      "101", " 102 ", "103", "104", "482", "<42>", "<101.0>", PyTrue }
FieldValues == { Absent, PyNone, "", "false", "0", "true", "abc", "42", "inf", PyFalse }
OtherFieldValues == { PyNone, "", "abc", "42" }

RecordConfigs ==
    [dry_run : BOOLEAN, update_grist_status : {FALSE}, detect_changes : {FALSE},
     limit : {MaxLimit}, column_mapping : {FullMapping},
     annotation_types : {NoTypes}, missing : {{}}]

RecordInit ==
    /\ config \in RecordConfigs
    /\ table \in { << [id |-> 1, fields |-> Row(d, v1, v2, Absent, Absent)] >> :
                      d \in DossierValues, v1 \in FieldValues, v2 \in OtherFieldValues }
    /\ dsValues = [a \in AnnotationIds |-> Unset]
    /\ runs = 1
    /\ edits = 0
    /\ prev = [id \in {r.id : r \in Range(table)} |-> NoPrev]
    /\ columns = GristColumnTypes
    /\ call = NoCall
    /\ ret = NoReturn
    /\ InitRun

RecordSpec == RecordInit /\ [][Next]_vars

\* ------------------------------------------------------------------------
\* Runs on a table of one record whose column c1 is a Bool column
\* ------------------------------------------------------------------------
BoolFieldValues == { Absent, PyNone, "", PyTrue, PyFalse, "true", "false", "abc" }

BoolColumnInit ==
    /\ config \in RecordConfigs
    /\ table \in { << [id |-> 1, fields |-> Row(d, v1, v2, Absent, Absent)] >> :
                      d \in {"101", "103", "104"}, v1 \in BoolFieldValues,
                      v2 \in OtherFieldValues }
    /\ columns = BoolColumnTypes
    /\ dsValues = [a \in AnnotationIds |-> Unset]
    /\ runs = 1
    /\ edits = 0
    /\ prev = [id \in {r.id : r \in Range(table)} |-> NoPrev]
    /\ call = NoCall
    /\ ret = NoReturn
    /\ InitRun

BoolColumnSpec == BoolColumnInit /\ [][Next]_vars

\* ------------------------------------------------------------------------
\* The helpers of DSClient and GristClient called on their own, over the type
\* names and values below
\* ------------------------------------------------------------------------
\* "Choice" is a Grist type the table does not know
CallGristTypes == GristTypes \cup {"Choice"}
\* "siret" has no entry in the table; the last two normalise to "checkbox"
CallDsTypes ==
    { "text", "textarea", "checkbox", "date", "datetime", "number", "integer_number",
      "decimal_number", "drop_down_list", "siret", "Checkbox",
      "annotation_descriptor_checkbox" }
\* PyNone: no sample value
CallValues ==
    { PyNone, "", "abc", "true", "OUI", "1", "0", "42", " 42 ", "3.14", "inf", "1e999",
      "nan", PyTrue, PyFalse, PyZero, "<42>", "<inf>" }
DateValues == { "2024-01-15", "2024-01-15T10:30:00", "2024-01-15T10:30:00Z" }

CompatibilityCalls ==
    [fn : {"check_compatibility"}, grist_type : CallGristTypes,
     ds_annotation_type : CallDsTypes, grist_value : CallValues]
FormatCalls ==
    [fn : {"format_value_for_ds"}, value : CallValues \cup DateValues,
     ds_annotation_type : CallDsTypes]
\* the values of a mapped column; the other columns of the record are not
\* tracked
HashValues == { Absent, PyNone, "", "42", "7", "abc", "inf", "false" }
HashFields ==
    { Row(d, v1, v2, st, Absent) :
        d \in {"101", "482"}, v1 \in HashValues, v2 \in HashValues,
        st \in {PyNone, "success"} }
\* "c9" is a column no record has
ColumnLists ==
    { <<>>, <<"c1">>, <<"c2">>, <<"c1", "c2">>, <<"c2", "c1">>, <<"c2", "c9", "c1", "c2">> }
HashCalls ==
    [fn : {"calculate_data_hash"}, record_fields : HashFields, columns_to_sync : ColumnLists]
UpdateCalls ==
    [fn : {"update_annotation_by_type"}, value : CallValues \cup DateValues,
     annotation_type : CallDsTypes]
Calls == CompatibilityCalls \cup FormatCalls \cup HashCalls \cup UpdateCalls

CallInit ==
    /\ call \in Calls
    /\ ret = NoReturn
    /\ config \in {c \in ValidConfigs : /\ c.dry_run /\ c.update_grist_status
                                        /\ c.detect_changes /\ c.limit = MaxLimit
                                        /\ c.annotation_types = NoTypes}
    /\ table = <<>>
    /\ columns = GristColumnTypes
    /\ dsValues = [a \in AnnotationIds |-> Unset]
    /\ runs = 0
    /\ edits = 0
    /\ prev = << >>
    /\ InitRun

CheckCompatibility ==
    /\ call.fn = "check_compatibility"
    /\ ret = NoReturn
    /\ ret' = check_compatibility(call.grist_type, call.ds_annotation_type, call.grist_value)
    /\ UNCHANGED << call, columns, config, table, dsValues, pc, runVars, recVars, report, hist,
                    counters, prev >>

FormatValueForDs ==
    /\ call.fn = "format_value_for_ds"
    /\ ret = NoReturn
    /\ ret' = format_value_for_ds(call.value, call.ds_annotation_type)
    /\ UNCHANGED << call, columns, config, table, dsValues, pc, runVars, recVars, report, hist,
                    counters, prev >>

CalculateDataHash ==
    /\ call.fn = "calculate_data_hash"
    /\ ret = NoReturn
    /\ ret' = calculate_data_hash(call.record_fields, call.columns_to_sync)
    /\ UNCHANGED << call, columns, config, table, dsValues, pc, runVars, recVars, report, hist,
                    counters, prev >>

\* ret: the update operation the call invoked ("none": it invoked none)
UpdateAnnotationByType ==
    /\ call.fn = "update_annotation_by_type"
    /\ ret = NoReturn
    /\ ret' = update_annotation_by_type(call.value, call.annotation_type).op
    /\ UNCHANGED << call, columns, config, table, dsValues, pc, runVars, recVars, report,
                    hist, counters, prev >>

CallNext ==
    \/ CheckCompatibility
    \/ FormatValueForDs
    \/ CalculateDataHash
    \/ UpdateAnnotationByType

CallSpec == CallInit /\ [][CallNext]_vars

\* ------------------------------------------------------------------------
\* Properties
\* ------------------------------------------------------------------------
\* The outcomes sync_record has returned so far in the run
Outcomes ==
    Range(results) \cup Range(error_details) \cup (IF pc = "classify" THEN {result} ELSE {})
Succeeded(res) == \E i \in 1..Len(res.updates) : res.updates[i].status = "success"
Ids(records) == MapSeq(LAMBDA r : r.id, records)
Returned == pc = "done" /\ Len(report) = 1

\* C1: every outcome of sync_record has status 'error' iff no field update
\* succeeded and an error was recorded, 'partial_error' iff a field update
\* succeeded and an error was recorded, 'success' iff no error was recorded;
\* a 'dry_run' entry is not a succeeded update, the status is never 'pending'.
C1_StatusFollowsFieldOutcomes ==
    \A res \in Outcomes :
        /\ res.status \in {"success", "partial_error", "error"}
        /\ (res.status = "error") <=> (~Succeeded(res) /\ res.errors /= <<>>)
        /\ (res.status = "partial_error") <=> (Succeeded(res) /\ res.errors /= <<>>)
        /\ (res.status = "success") <=> (res.errors = <<>>)

\* C2: in sync_record, an error on one mapping entry never prevents the
\* entries after it from being examined: when the call returns after having
\* entered the loop, every entry after an entry in error has been examined.
C2_LaterFieldsStillExamined ==
    pc = "classify" =>
        \A i \in seen.errors :
            \A j \in (i + 1)..Len(config.column_mapping) : j \in seen.examined

\* C3: once the loop over the records is entered, a failing record never stops
\* it: the records passed to sync_record are the candidates after truncation,
\* each once and in order, and the report counts all of them as processed.
C3_Handled ==
    CASE pc = "record" -> ri - 1
      [] pc \in {"field", "classify"} -> ri
      [] OTHER -> Len(grist_records)
C3_BatchNeverAborted ==
    ri >= 1 =>
        /\ hist.synced = Ids(Take(grist_records, C3_Handled))
        /\ Len(results) + Len(error_details)
             = (IF pc \in {"field", "classify"} THEN C3_Handled - 1 ELSE C3_Handled)
        /\ Returned =>
             /\ report[1].processed = Len(grist_records)
             /\ hist.synced = Ids(grist_records)
\* a run of two records whose first record failed and whose second succeeded
C3_Witness ==
    /\ Returned
    /\ Len(grist_records) = 2
    /\ Len(error_details) = 1 /\ error_details[1].grist_record_id = grist_records[1].id
    /\ error_details[1].status = "error"
    /\ Len(results) = 1 /\ results[1].grist_record_id = grist_records[2].id

\* C4: in a dry run no update is sent to DS and no bookkeeping field is
\* written to Grist, every recorded update entry has status 'dry_run', and
\* the table and the annotation values are left as they were.
C4_DryRunDoesNothing ==
    /\ [](config.dry_run =>
            /\ hist.updates = <<>>
            /\ hist.writes = <<>>
            /\ \A res \in Outcomes \cup {result} :
                 \A i \in 1..Len(res.updates) : res.updates[i].status = "dry_run")
    /\ [][config.dry_run => table' = table /\ dsValues' = dsValues]_vars
\* a completed dry run, bookkeeping configured, with a recorded update entry
C4_Witness ==
    /\ Returned
    /\ config.dry_run /\ config.update_grist_status
    /\ report[1].processed = 2
    /\ \E res \in Outcomes : res.updates /= <<>>

\* C5: a record with a dossier number is a candidate of get_records_to_sync
\* iff it has no status, or its status is None, '', 'error' or 'pending', or
\* its status is 'success' while change detection is on, columns are tracked
\* and the fresh fingerprint differs from the stored sync_hash.
C5_Tracked == [i \in 1..Len(config.column_mapping) |-> config.column_mapping[i].col]
C5_Selected(fields) ==
    \/ fields.sync_status \in {Absent, PyNone, "", "error", "pending"}
    \/ /\ fields.sync_status = "success"
       /\ config.detect_changes
       /\ C5_Tracked /= <<>>
       /\ calculate_data_hash(fields, C5_Tracked) /= fields.sync_hash
C5_CandidateSelection ==
    (hist.selected /\ config.update_grist_status) =>
        \A i \in 1..Len(hist.listed) :
            hist.listed[i].fields.dossier /= "" =>
                (hist.listed[i].id \in Range(hist.candidates)
                   <=> C5_Selected(hist.listed[i].fields))
\* the selection kept a changed 'success' record and left out an unchanged one
C5_Witness ==
    /\ hist.selected /\ config.update_grist_status
    /\ config.detect_changes
    /\ \A i \in 1..2 : /\ hist.listed[i].fields.sync_status = "success"
                       /\ hist.listed[i].fields.dossier /= ""
    /\ hist.candidates = << 2 >>

\* C6: with bookkeeping on, dry-run off and change detection on, a record
\* whose last outcome was 'success' and whose write-back reached Grist is not
\* a candidate of a later run while its mapped fields are unchanged, and that
\* run makes no annotation fetch and no update for it; a record synchronised
\* before whose status is not 'success', or whose mapped fields changed after
\* the write-back, is a candidate again.
C6_Unchanged(record) ==
    /\ record.fields.c1 = prev[record.id].c1
    /\ record.fields.c2 = prev[record.id].c2
C6_Settled(record) ==
    /\ prev[record.id].status = "success"
    /\ prev[record.id].written
    /\ C6_Unchanged(record)
C6_RerunsOnlyWhatChanged ==
    hist.selected =>
        \A i \in 1..Len(hist.listed) :
            LET record == hist.listed[i]
            IN  prev[record.id].run \in 1..(runs - 1) =>
                  /\ C6_Settled(record) =>
                       /\ record.id \notin Range(hist.candidates)
                       /\ record.id \notin Range(hist.synced)
                       /\ \A k \in 1..Len(hist.fetches) : hist.fetches[k].record /= record.id
                       /\ \A k \in 1..Len(hist.updates) : hist.updates[k].record /= record.id
                  /\ (\/ record.fields.sync_status /= "success"
                      \/ prev[record.id].written /\ ~C6_Unchanged(record)) =>
                       record.id \in Range(hist.candidates)
\* the second run, after both records were synchronised with success and
\* written back and the second one was edited: only the second is a candidate
C6_Witness ==
    /\ runs = 2 /\ edits = 1
    /\ pc = "done" /\ hist.selected
    /\ \A i \in 1..2 : /\ hist.listed[i].fields.sync_status = "success"
                       /\ prev[hist.listed[i].id].written
    /\ prev[hist.listed[1].id].run = 1 /\ prev[hist.listed[1].id].status = "success"
    /\ C6_Unchanged(hist.listed[1])
    /\ hist.candidates = << hist.listed[2].id >>
    /\ prev[hist.listed[2].id].run = 2

\* C7 as stated: every report, on every return path, has processed equal to
\* successful plus the number of entries of error_details, results holding
\* the outcomes of status 'success' and error_details the other outcomes.
C7_Sorted(r) ==
    /\ Range(r.results) = {o \in Outcomes : o.status = "success"}
    /\ Range(r.error_details) = {o \in Outcomes : o.status /= "success"}
    /\ Len(r.results) + Len(r.error_details) = Len(hist.synced)
C7_EveryReportBalances ==
    Returned =>
        /\ report[1].processed = report[1].successful + Len(report[1].error_details)
        /\ C7_Sorted(report[1])
\* C7: a report with success=true has processed equal to successful plus the
\* number of entries of error_details, results holding exactly the outcomes of
\* status 'success' and error_details exactly the others ('partial_error'
\* included); a report with success=false has processed = successful = 0, no
\* results, and error_details holding diagnostics instead of record outcomes.
C7_CompletedReportsBalance ==
    Returned =>
        LET r == report[1]
        IN  /\ r.success =>
                /\ r.processed = r.successful + Len(r.error_details)
                /\ r.successful = Len(r.results)
                /\ C7_Sorted(r)
            /\ ~r.success =>
                /\ r.processed = 0 /\ r.successful = 0 /\ r.results = <<>>
                /\ r.error_details /= <<>>
                /\ \A i \in 1..Len(r.error_details) :
                     r.error_details[i].status \in
                        {"config_error", "grist_error", "ds_error", "unexpected_error"}
\* a completed run with one record in 'success' and one in 'partial_error'
C7_Witness ==
    /\ Returned /\ report[1].success
    /\ report[1].processed = 2 /\ report[1].successful = 1
    /\ Len(report[1].error_details) = 1
    /\ report[1].error_details[1].status = "partial_error"

\* C8 as stated: success is false only when the configuration validation
\* failed or an unexpected exception occurred; every other run, a failed
\* listing of the records or of the cases included, has success true.
C8_FailsOnlyOnConfigOrException ==
    Returned => (~report[1].success <=> hist.cause \in {"config", "exception"})
\* C8: success is false exactly when the configuration validation failed, the
\* listing of the Grist records failed, the listing of the DS cases failed or
\* an unexpected exception occurred; a run that reaches the loop over the
\* records has success true whatever the outcomes of the records.
C8_FailsOnEarlyReturnOnly ==
    Returned =>
        /\ ~report[1].success <=> hist.cause \in {"config", "grist", "ds", "exception"}
        /\ ri >= 1 => report[1].success
\* a run whose two records both failed
C8_Witness ==
    /\ Returned /\ report[1].success
    /\ report[1].processed = 2 /\ report[1].successful = 0
    /\ \A i \in 1..2 : report[1].error_details[i].status = "error"

\* C9: when a required setting is missing, the mapping is empty or a
\* connection test fails, execute_sync returns one report with success=false,
\* processed=0, successful=0 and only 'config_error' entries, and has listed
\* no record and no case, fetched no annotation, sent no update and written
\* no bookkeeping field.
C9_Invalid ==
    \/ config.missing /= {}
    \/ config.column_mapping = <<>>
    \/ ~hist.grist_ok
    \/ ~hist.ds_ok
C9_ConfigErrorShortCircuits ==
    (hist.tested /\ C9_Invalid) =>
        /\ Returned
        /\ ~report[1].success
        /\ report[1].processed = 0 /\ report[1].successful = 0 /\ report[1].results = <<>>
        /\ report[1].error_details /= <<>>
        /\ report[1].errors = Len(report[1].error_details)
        /\ \A i \in 1..Len(report[1].error_details) :
             /\ report[1].error_details[i].status = "config_error"
             /\ \A j \in 1..Len(report[1].error_details) :
                  report[1].error_details[i] = report[1].error_details[j] => i = j
        /\ hist.list_records = 0 /\ hist.list_dossiers = 0
        /\ hist.fetches = <<>> /\ hist.updates = <<>> /\ hist.writes = <<>>
        /\ hist.synced = <<>>
        /\ dsValues = [a \in AnnotationIds |-> Unset]
\* a complete configuration whose DS connection test failed
C9_Witness ==
    /\ Returned
    /\ config.missing = {} /\ config.column_mapping /= <<>>
    /\ hist.tested /\ hist.grist_ok /\ ~hist.ds_ok
    /\ Len(report[1].error_details) = 1

\* C10: execute_sync never stops without a report and returns exactly one;
\* an exception raised during the run gives a report with success=false and
\* exactly one diagnostic entry, of status 'unexpected_error'.
C10_Reported ==
    /\ pc = "done" <=> Len(report) = 1
    /\ pc /= "done" => report = <<>>
    /\ (Returned /\ hist.cause = "exception") =>
         /\ ~report[1].success
         /\ report[1].processed = 0 /\ report[1].successful = 0 /\ report[1].results = <<>>
         /\ Len(report[1].error_details) = 1
         /\ report[1].errors = 1
         /\ report[1].error_details[1].status = "unexpected_error"
C10_AlwaysReturnsAReport == []C10_Reported /\ <>(pc = "done")
\* the exception of check_compatibility during validate_data_compatibility
C10_Witness ==
    /\ Returned
    /\ hist.cause = "exception"
    /\ hist.selected /\ hist.list_dossiers = 0
    /\ report[1].error_details[1].error = OverflowMessage

\* C11: a bookkeeping write-back that Grist refuses changes neither the
\* outcome of the record nor the counts of the report, and the records after
\* it are still synchronised and written back: every classified record has one
\* outcome and one write-back, in order, the write-back carrying the status of
\* the outcome whether or not it was accepted.
C11_Classified == Len(results) + Len(error_details)
C11_OutcomeOf(id) == CHOOSE o \in Outcomes : o.grist_record_id = id
C11_WriteBackFailureIsIgnored ==
    (ri >= 1 /\ WritesBookkeeping(config)) =>
        /\ Len(hist.writes) = C11_Classified
        /\ \A k \in 1..Len(hist.writes) :
             /\ hist.writes[k].record = grist_records[k].id
             /\ hist.synced[k] = grist_records[k].id
             /\ \E o \in Range(results) \cup Range(error_details) :
                  o.grist_record_id = grist_records[k].id
             /\ (hist.writes[k].fields.sync_status = "success")
                  <=> (C11_OutcomeOf(grist_records[k].id).status = "success")
             /\ (C11_OutcomeOf(grist_records[k].id).status = "success")
                  <=> (C11_OutcomeOf(grist_records[k].id) \in Range(results))
        /\ pc = "done" =>
             /\ Returned
             /\ report[1].success
             /\ report[1].processed = Len(grist_records)
             /\ Len(hist.writes) = Len(grist_records)
             /\ report[1].successful = Len(results)
             /\ report[1].errors = Len(error_details)
\* a run of two successful records: the write-back of the first was refused,
\* the second was still synchronised and written back, both count as successful
C11_Witness ==
    /\ Returned
    /\ Len(hist.writes) = 2
    /\ ~hist.writes[1].ok /\ hist.writes[1].fields.sync_status = "success"
    /\ hist.writes[2].ok
    /\ report[1].processed = 2 /\ report[1].successful = 2

\* What a call of sync_record did for the record it was given
C12_Record == grist_records[ri]
C12_NothingDone ==
    /\ \A k \in 1..Len(hist.fetches) : hist.fetches[k].record /= C12_Record.id
    /\ \A k \in 1..Len(hist.updates) : hist.updates[k].record /= C12_Record.id
    /\ seen.examined = {}
    /\ result.updates = <<>>
\* the positive integer a dossier-number value denotes (0: none)
C12_Denoted(raw) ==
    CASE raw \in {"101", "<101.0>"} -> 101
      [] raw = " 102 " -> 102
      [] raw = "103" -> 103
      [] raw = "104" -> 104
      [] raw = "482" -> 482
      [] raw = "<42>" -> 42
      [] raw = PyTrue -> 1
      [] OTHER -> 0

\* C12: when the dossier-number field is absent, empty or does not convert to
\* a positive integer, sync_record returns status 'error' without fetching
\* annotations, examining a mapped field or sending an update; otherwise the
\* number it uses is the positive integer the field denotes.
C12_DossierNumberIsValidated ==
    pc = "classify" =>
        IF C12_Denoted(C12_Record.fields.dossier) = 0
        THEN /\ result.status = "error"
             /\ Len(result.errors) = 1
             /\ C12_NothingDone
        ELSE result.dossier_number = C12_Denoted(C12_Record.fields.dossier)
\* sync_record returned for a dossier number written with spaces around it
C12_WitnessTrimmed ==
    /\ pc = "classify"
    /\ C12_Record.fields.dossier = " 102 "
    /\ result.dossier_number = 102
    /\ seen.examined /= {}
\* sync_record returned for a negative dossier number
C12_Witness ==
    /\ pc = "classify"
    /\ C12_Record.fields.dossier = "-5"
    /\ result.status = "error"

\* C13: when the dossier number is not a key of the number-to-id map,
\* sync_record returns status 'error' with one message naming that number,
\* without fetching annotations, examining a mapped field or sending an update.
C13_UnknownDossierIsAnError ==
    (/\ pc = "classify"
     /\ C12_Denoted(C12_Record.fields.dossier) /= 0
     /\ C12_Denoted(C12_Record.fields.dossier) \notin {c.number : c \in Range(DsCases)}) =>
        /\ result.status = "error"
        /\ result.errors = << "Dossier " \o ToString(C12_Denoted(C12_Record.fields.dossier))
                                \o " non trouve dans la demarche" >>
        /\ result.dossier_number = C12_Denoted(C12_Record.fields.dossier)
        /\ result.dossier_uuid = PyNone
        /\ C12_NothingDone
\* sync_record returned for dossier 482, which the demarche does not hold
C13_Witness ==
    /\ pc = "classify"
    /\ C12_Record.fields.dossier = "482"
    /\ result.status = "error"
    /\ result.dossier_number = 482

\* The update requests sent for an annotation
C14_Sent(annotation) ==
    SelectSeq(hist.updates, LAMBDA u : u.annotation = annotation)

\* C14: a mapped field holding 'false' or '0' whose annotation is a checkbox
\* is sent through the checkbox update with value false; a mapped field that
\* is absent, None or '' whose annotation is a text gives no request and no
\* error. (Case 103: c1 -> L1, checkbox a4; c2 -> L2, text a5.)
C14_FalsyLiteralsReachCheckbox ==
    (pc \in {"field", "classify"} /\ C12_Record.fields.dossier = "103" /\ ~config.dry_run) =>
        /\ (1 \in seen.examined /\ C12_Record.fields.c1 \in {"false", "0"}) =>
             /\ Len(C14_Sent("a4")) = 1
             /\ C14_Sent("a4")[1].op = "checkbox"
             /\ C14_Sent("a4")[1].value = PyFalse
             /\ C14_Sent("a4")[1].dossier = "D103"
             /\ C14_Sent("a4")[1].accepted <=> 1 \notin seen.errors
             /\ C14_Sent("a4")[1].accepted => dsValues["a4"] = PyFalse
        /\ (2 \in seen.examined /\ C12_Record.fields.c2 \in {Absent, PyNone, ""}) =>
             /\ C14_Sent("a5") = <<>>
             /\ 2 \notin seen.errors
             /\ dsValues["a5"] = Unset
             /\ \A k \in 1..Len(result.updates) : result.updates[k].grist_column /= "c2"
\* 'false' was sent to the checkbox a4 and accepted; the empty c2 was passed over
C14_Witness ==
    /\ pc = "classify"
    /\ C12_Record.fields.dossier = "103"
    /\ C12_Record.fields.c1 = "false" /\ C12_Record.fields.c2 = ""
    /\ dsValues["a4"] = PyFalse
    /\ seen.examined = {1, 2}
    /\ result.status = "success"

\* C15: a mapped field that is present with value '' or None is skipped only
\* when its annotation is not a checkbox: for a text annotation (a5) nothing is
\* sent and no error is recorded; for a checkbox annotation (a4) the field is
\* not skipped and the value false is sent.
C15_EmptyMeansFalseForCheckbox ==
    (pc \in {"field", "classify"} /\ C12_Record.fields.dossier = "103" /\ ~config.dry_run) =>
        /\ (2 \in seen.examined /\ C12_Record.fields.c2 \in {PyNone, ""}) =>
             /\ C14_Sent("a5") = <<>>
             /\ 2 \notin seen.errors
        /\ (1 \in seen.examined /\ C12_Record.fields.c1 \in {PyNone, ""}) =>
             /\ Len(C14_Sent("a4")) = 1
             /\ C14_Sent("a4")[1].op = "checkbox"
             /\ C14_Sent("a4")[1].value = PyFalse

\* Values of a Text column that cannot be written to an annotation of the type
C16_IncompatiblePairs ==
    ({"abc", "true", "false", PyFalse} \X {"integer_number"})
    \cup ({"abc", "42", "inf", ""} \X {"checkbox"})
C16_Incompatible(i) ==
    LET m == config.column_mapping[i]
    IN  /\ HasLabel(annotations, m.label)
        /\ << C12_Record.fields[m.col], annotations_by_label(annotations, m.label).ds_type >>
             \in C16_IncompatiblePairs

\* C16: for a mapped field whose verdict is 'incompatible', sync_record
\* records exactly one error, sends no update for the annotation, adds no
\* update entry for the column, and goes on with the next mapping entry.
C16_IncompatibleFieldIsAnErrorOnly ==
    pc \in {"field", "classify"} =>
        /\ seen.examined /= {} => Len(result.errors) = Cardinality(seen.errors)
        /\ \A i \in seen.examined :
             C16_Incompatible(i) =>
                LET m == config.column_mapping[i]
                    a == annotations_by_label(annotations, m.label)
                IN  /\ i \in seen.errors
                    /\ \E k \in 1..Len(result.errors) :
                         result.errors[k] = "Types incompatibles pour " \o m.col
                                              \o ": Text -> " \o a.ds_type
                    /\ C14_Sent(a.id) = <<>>
                    /\ dsValues[a.id] = Unset
                    /\ \A k \in 1..Len(result.updates) : result.updates[k].grist_column /= m.col
                    /\ (pc = "classify" /\ i < Len(config.column_mapping)) =>
                         i + 1 \in seen.examined
\* 'abc' for the integer annotation of c1 was refused, then '42' of c2 was sent
C16_Witness ==
    /\ pc = "classify"
    /\ C12_Record.fields.dossier = "101"
    /\ C12_Record.fields.c1 = "abc" /\ C12_Record.fields.c2 = "42"
    /\ seen.errors = {1} /\ seen.examined = {1, 2}
    /\ Len(C14_Sent("a2")) = 1
    /\ result.status = "partial_error"

\* ------------------------------------------------------------------------
\* C17: check_compatibility is total: for every Grist type name, annotation
\* type name and value it returns 'compatible', 'needs_conversion' or
\* 'incompatible' and raises nothing; a Grist type the table does not know,
\* and an annotation type with no entry for the Grist type, give
\* 'incompatible'.
\* ------------------------------------------------------------------------
Verdicts == {"compatible", "needs_conversion", "incompatible"}
Compared == call.fn = "check_compatibility" /\ ret /= NoReturn
KnownDsTypes == TextDsTypes \cup DateDsTypes \cup NumericDsTypes \cup {"checkbox", "drop_down_list"}

C17_CheckCompatibilityIsTotal ==
    Compared =>
        /\ ret \in Verdicts
        /\ call.grist_type \notin GristTypes => ret = "incompatible"
        /\ NormalizeDsType(call.ds_annotation_type) \notin KnownDsTypes => ret = "incompatible"

\* ------------------------------------------------------------------------
\* C18: with a sample value and a Text source, check_compatibility returns
\* for a checkbox 'compatible' when the lower-cased value is in the boolean
\* vocabulary and 'incompatible' when it is not, and for an integer or a
\* decimal annotation 'compatible' when the value parses as that kind of
\* number and 'incompatible' when it does not: never 'needs_conversion'.
\* Without a sample value the verdict is the entry of the table.
\* ------------------------------------------------------------------------
C18_Kind == NormalizeDsType(call.ds_annotation_type)
C18_Parses ==
    IF C18_Kind = "integer_number"
    THEN TryIntOfFloat(PyStr(call.grist_value)) = "ok"
    ELSE TryFloat(PyStr(call.grist_value)) = "ok"
C18_Refined ==
    CASE C18_Kind = "checkbox" ->
           IF Lower(PyStr(call.grist_value)) \in BoolVocabulary
           THEN "compatible" ELSE "incompatible"
      [] C18_Kind \in {"integer_number", "decimal_number"} ->
           IF C18_Parses THEN "compatible" ELSE "incompatible"
      [] OTHER -> ret

C18_ValueRefinesTextVerdict ==
    Compared =>
        /\ call.grist_value /= PyNone /\ call.grist_type = "Text" => ret = C18_Refined
        /\ call.grist_value = PyNone /\ call.grist_type \in GristTypes
             => ret = compatibility_map(call.grist_type, C18_Kind)

\* ------------------------------------------------------------------------
\* C19: format_value_for_ds lets no exception escape: a literal that is not
\* a number, or not a finite one, for an integer or decimal annotation gives
\* the string form of the value; None and '' give None.
\* ------------------------------------------------------------------------
Formatted == call.fn = "format_value_for_ds" /\ ret /= NoReturn
C19_ConversionFails ==
    /\ call.value \notin {PyNone, ""}
    /\ NormalizeDsType(call.ds_annotation_type) \in {"integer_number", "decimal_number"}
    /\ FloatOfValue(call.value).kind /= "finite"

C19_FormatNeverRaises ==
    Formatted =>
        /\ ret /= OverflowError
        /\ call.value \in {PyNone, ""} => ret = PyNone
        /\ C19_ConversionFails => ret = PyStr(call.value)

\* ------------------------------------------------------------------------
\* C20: calculate_data_hash depends only on the record's values for the
\* tracked columns: two calls whose records agree on the tracked columns give
\* the same fingerprint, whatever the other fields and whatever the order of
\* the list of tracked columns, the call itself included (the fingerprint is
\* reproducible); the fingerprint is 12 characters long.
\* ------------------------------------------------------------------------
Hashed == call.fn = "calculate_data_hash" /\ ret /= NoReturn
C20_Projection(c) ==
    [col \in {x \in Range(c.columns_to_sync) : HasColumn(c.record_fields, x)}
        |-> c.record_fields[col]]

C20_HashDependsOnTrackedValuesOnly ==
    Hashed =>
        /\ Len(ret) = 12
        /\ \A other \in HashCalls :
              C20_Projection(other) = C20_Projection(call)
                 => calculate_data_hash(other.record_fields, other.columns_to_sync) = ret

\* two tracked columns listed in reverse order, in a record whose other
\* fields differ from those of another record with the same tracked values
C20_Witness ==
    /\ Hashed
    /\ call.columns_to_sync = <<"c2", "c1">>
    /\ call.record_fields = Row("482", "42", "7", "success", Absent)
    /\ ret = calculate_data_hash(Row("101", "42", "7", PyNone, Absent), <<"c1", "c2">>)

\* ------------------------------------------------------------------------
\* C21: a label that has a configured type is examined, judged and updated
\* with that type; the type discovered from the fetched annotation is used
\* only for a label that has none.
\* ------------------------------------------------------------------------
C21_Discovered(annotation_id) ==
    LET c == CHOOSE c \in Range(DsCases) : \E a \in Range(c.annotations) : a.id = annotation_id
        a == CHOOSE a \in Range(c.annotations) : a.id = annotation_id
    IN  _normalize_annotation_type(a.typename)

C22_First(label) ==
    LET first == CHOOSE i \in 1..Len(annotations) :
                    /\ annotations[i].label = label
                    /\ \A j \in 1..(i - 1) : annotations[j].label /= label
    IN  annotations[first]

C22_FirstMatchingAnnotationIsUsed ==
    pc \in {"field", "classify"} =>
        /\ \A k \in 1..Len(result.updates) :
             LET u == result.updates[k]
             IN  /\ u.annotation_id = C22_First(u.annotation_label).id
                 /\ u.ds_type = C22_First(u.annotation_label).ds_type
        /\ \A k \in 1..Len(hist.updates) :
             \E i \in 1..Len(config.column_mapping) :
                /\ HasLabel(annotations, config.column_mapping[i].label)
                /\ hist.updates[k].annotation = C22_First(config.column_mapping[i].label).id
        /\ \A i \in seen.examined :
             LET m == config.column_mapping[i]
             IN  (/\ ~HasLabel(annotations, m.label)
                  /\ C12_Record.fields[m.col] \notin {Absent, PyNone, ""})
                    => /\ i \in seen.errors
                       /\ \E k \in 1..Len(result.errors) :
                            result.errors[k] = "Annotation '" \o m.label \o "' non trouvee"

\* ------------------------------------------------------------------------
\* C23: an update entry (status 'success' or 'dry_run') carries the value as
\* format_value_for_ds converts it for the type of the annotation, not the
\* value as the record holds it.
\* ------------------------------------------------------------------------
C23_EntryCarriesCoercedValue ==
    pc \in {"field", "classify"} =>
        \A k \in 1..Len(result.updates) :
            LET u == result.updates[k]
            IN  /\ u.status \in {"success", "dry_run"}
                /\ u.value = format_value_for_ds(C12_Record.fields[u.grist_column], u.ds_type)

\* ------------------------------------------------------------------------
\* C24: with bookkeeping on and dry-run off, every record given to
\* sync_record gets one bookkeeping write, made after its sync_record call has
\* returned and before the next record is taken; the status written is
\* 'success' when the outcome is 'success' and 'error' otherwise, the
\* fingerprint written is the one computed for the record when the candidates
\* were selected; the other records get no write.
\* ------------------------------------------------------------------------
C24_Front(s) == SubSeq(s, 1, Len(s) - 1)
C24_Listed(id) == CHOOSE r \in Range(hist.listed) : r.id = id
C24_Written == MapSeq(LAMBDA w : w.record, hist.writes)

C24_OneWritePerProcessedRecord ==
    WritesBookkeeping(config) =>
        /\ C24_Written = IF pc \in {"field", "classify"} THEN C24_Front(hist.synced)
                         ELSE hist.synced
        /\ \A k \in 1..Len(hist.writes) :
             LET w == hist.writes[k]
             IN  /\ w.record = grist_records[k].id
                 /\ w.fields.sync_status =
                       IF C11_OutcomeOf(w.record).status = "success" THEN "success" ELSE "error"
                 /\ w.fields.sync_hash =
                       calculate_data_hash(C24_Listed(w.record).fields,
                                           MapSeq(LAMBDA m : m.col, config.column_mapping))
        /\ \A i \in 1..Len(table) :
             table[i].id \notin Range(hist.synced) =>
                (hist.selected => table[i] = hist.listed[i])

\* a run of two records: the first ended in 'partial_error' and was written
\* back as 'error', the second succeeded and was written back as 'success'
C24_Witness ==
    /\ Returned
    /\ WritesBookkeeping(config)
    /\ Len(hist.writes) = 2
    /\ C11_OutcomeOf(hist.writes[1].record).status = "partial_error"
    /\ hist.writes[1].fields.sync_status = "error"
    /\ hist.writes[2].fields.sync_status = "success"

\* ------------------------------------------------------------------------
\* C25: an update entry with status 'success' is recorded for a field only
\* when one update request was sent for the annotation of the field and the
\* destination accepted it.
\* ------------------------------------------------------------------------
C25_SuccessMeansOneAcceptedRequest ==
    pc \in {"field", "classify"} =>
        \A k \in 1..Len(result.updates) :
            LET u == result.updates[k]
            IN  u.status = "success" =>
                   /\ Len(C14_Sent(u.annotation_id)) = 1
                   /\ C14_Sent(u.annotation_id)[1].accepted
                   /\ dsValues[u.annotation_id] = C14_Sent(u.annotation_id)[1].value

\* ------------------------------------------------------------------------
\* C26: a run gives at most `limit` records to sync_record: the first
\* `limit` candidates in table order, all of them when the run is not ended
\* early; a candidate beyond the limit gets no fetch, no update request and
\* no bookkeeping write. Without bookkeeping the candidates are the first
\* `limit` records of the table, whatever their stored status.
\* ------------------------------------------------------------------------
C26_Kept == SubSeq(hist.candidates, 1, config.limit)
C26_Untouched(id) ==
    /\ \A k \in 1..Len(hist.fetches) : hist.fetches[k].record /= id
    /\ \A k \in 1..Len(hist.updates) : hist.updates[k].record /= id
    /\ \A k \in 1..Len(hist.writes) : hist.writes[k].record /= id
    /\ \A i \in 1..Len(table) : table[i].id = id => table[i] = hist.listed[i]

C26_LimitIsRespected ==
    hist.selected =>
        /\ Len(hist.synced) <= config.limit
        /\ hist.candidates
             = Ids(SelectSeq(hist.listed, LAMBDA r : r.id \in Range(hist.candidates)))
        /\ Len(hist.candidates) > config.limit =>
             /\ hist.synced = SubSeq(C26_Kept, 1, Len(hist.synced))
             /\ (pc = "done" /\ hist.cause = "") => hist.synced = C26_Kept
             /\ \A id \in Range(hist.candidates) \ Range(C26_Kept) : C26_Untouched(id)
        /\ ~config.update_grist_status =>
             /\ Len(hist.candidates) <= config.limit
             /\ hist.candidates = SubSeq(Ids(hist.listed), 1, Len(hist.candidates))
             /\ Len(hist.candidates) < config.limit => Len(hist.candidates) = Len(hist.listed)

\* two candidates and a limit of one: the first was synchronised and written
\* back, the run returned
C26_Witness ==
    /\ Returned
    /\ config.limit = 1
    /\ Len(hist.candidates) = 2
    /\ hist.synced = << hist.candidates[1] >>
    /\ Len(hist.writes) = 1
    /\ report[1].processed = 1

\* ------------------------------------------------------------------------
\* C27: a run that has a candidate lists the cases of the demarche once,
\* before the first record is given to sync_record, and the number-to-id map
\* stays as built while the records are processed; a run without candidate
\* lists no case and returns success with processed = 0; when the listing
\* fails, no record is synchronised and nothing is written back.
\* ------------------------------------------------------------------------
C27_DossiersListedOnce ==
    /\ hist.list_dossiers <= 1
    /\ hist.synced /= <<>> => hist.list_dossiers = 1
    /\ pc \in {"record", "field", "classify"} =>
          dossier_mapping = DossierMapping(DsCases)
    /\ (Returned /\ hist.selected) =>
          IF hist.candidates = <<>>
          THEN /\ hist.list_dossiers = 0
               /\ report[1].success /\ report[1].processed = 0
          ELSE hist.list_dossiers = 1
    /\ hist.cause = "ds" =>
          /\ hist.synced = <<>> /\ hist.fetches = <<>> /\ hist.updates = <<>>
          /\ hist.writes = <<>>
          /\ table = hist.listed

\* ------------------------------------------------------------------------
\* C28: a call of update_annotation_by_type invokes one update operation,
\* chosen by the annotation type: the text operation for text and textarea,
\* their own operation for checkbox, date, datetime, integer_number,
\* decimal_number and drop_down_list, the text operation for any other type.
\* ------------------------------------------------------------------------
Dispatched == call.fn = "update_annotation_by_type" /\ ret /= NoReturn
C28_Operation(annotation_type) ==
    LET t == NormalizeDsType(annotation_type)
    IN  IF t \in {"checkbox", "date", "datetime", "integer_number", "decimal_number",
                  "drop_down_list"}
        THEN t ELSE "text"

C28_OneOperationPerCall ==
    Dispatched => ret = C28_Operation(call.annotation_type)

\* C28, amended: for a value that is not empty the call invokes the one
\* operation of the annotation type; for None and '' it invokes none.
C28_OneOperationPerNonEmptyValue ==
    Dispatched =>
        ret = IF call.value \in {PyNone, ""} THEN "none"
              ELSE C28_Operation(call.annotation_type)

\* a text value for a type that is not recognised went to the text operation
C28_Witness ==
    /\ Dispatched
    /\ call.value = "abc"
    /\ call.annotation_type = "siret"
    /\ ret = "text"

\* ------------------------------------------------------------------------
\* C29: format_value_for_ds for a date or datetime annotation: a literal that
\* ends with 'Z' is returned as it is; a literal that does not gets
\* 'T00:00:00.000Z' appended when the annotation is a datetime and the literal
\* has no 'T', and 'Z' appended in every other case, a date annotation with a
\* literal without 'T' included.
\* ------------------------------------------------------------------------
C29_Normalised ==
    IF EndsWithZ(call.value) THEN call.value
    ELSE IF NormalizeDsType(call.ds_annotation_type) = "datetime" /\ ~ContainsT(call.value)
         THEN call.value \o "T00:00:00.000Z"
         ELSE call.value \o "Z"

C29_DateLiteralsAreNormalised ==
    (/\ Formatted
     /\ NormalizeDsType(call.ds_annotation_type) \in DateDsTypes
     /\ call.value \in DateValues)
        => ret = C29_Normalised

\* C29, amended: as above, but a date annotation with a literal that has no
\* 'T' gets nothing appended.
C29_PlainDatesAreKept ==
    (/\ Formatted
     /\ NormalizeDsType(call.ds_annotation_type) \in DateDsTypes
     /\ call.value \in DateValues)
        => ret = IF NormalizeDsType(call.ds_annotation_type) = "date"
                    /\ ~EndsWithZ(call.value) /\ ~ContainsT(call.value)
                 THEN call.value
                 ELSE C29_Normalised

\* a date without time of day for a datetime annotation, and a date with a
\* time of day for a date annotation
C29_Witness ==
    /\ Formatted
    /\ \/ /\ call.value = "2024-01-15" /\ call.ds_annotation_type = "datetime"
          /\ ret = "2024-01-15T00:00:00.000Z"
       \/ /\ call.value = "2024-01-15T10:30:00" /\ call.ds_annotation_type = "date"
          /\ ret = "2024-01-15T10:30:00Z"

\* ------------------------------------------------------------------------
\* C30: when execute_sync is run again and again on a table that nobody
\* edits, with bookkeeping on, dry-run off and the same limit, and the runs
\* keep getting to their records, every record that needs synchronisation is
\* given to sync_record by some run, even if other records fail in every run.
\* ------------------------------------------------------------------------
C30_NeedsSync(id) ==
    \E i \in 1..Len(table) :
        /\ table[i].id = id
        /\ should_sync(table[i].fields, MapSeq(LAMBDA m : m.col, config.column_mapping),
                       config.detect_changes)
C30_Attempted(id) == id \in Range(hist.synced)
C30_RunCompleted == Returned /\ hist.cause = "" /\ hist.synced /= <<>>

C30_EveryCandidateIsEventuallyAttempted ==
    ([]<>C30_RunCompleted) =>
        \A id \in 1..2 : [](C30_NeedsSync(id) => <>C30_Attempted(id))

====
